---- MODULE Spec2Model ----
(***************************************************************************)
(* A model of the OCR service: page scheduling in OCRService.proses_file,  *)
(* the learned-words store of LearningService with its cache and the live  *)
(* dictionary KAMUS_DOKUMEN, and the dictionary correction pass            *)
(* correct_with_stats.                                                     *)
(***************************************************************************)
EXTENDS Integers, Sequences, FiniteSets, TLC

VARIABLES
    \* ---- one /extract request: OCRService.proses_file and its caller ----
    doc,                      \* the request: is_pdf, n pages, parallel flag, engine
    outcome,                  \* what recognition of page idx yields (black box)
    pc,                       \* position of the request's main thread
    task,                     \* state of the recognition call of each page
    finished,                 \* page indices in the order their calls finished
    yielded,                  \* futures as_completed has handed to the loop
    hasil_per_halaman,        \* dict idx -> text
    confidences_per_halaman,  \* dict idx -> confidence list
    semua_text,               \* list of page blocks built so far
    all_confidences,          \* confidence list built so far
    text_hasil,               \* text returned by proses_file
    response                  \* the OCRResponse of the request

pageVars == <<doc, outcome, pc, task, finished, yielded, hasil_per_halaman,
              confidences_per_halaman, semua_text, all_confidences,
              text_hasil, response>>

VARIABLES
    \* ---- the vocabulary: LearningService, KAMUS_DOKUMEN, the handlers ----
    learned_words,            \* table learned_words: word -> frequency, is_approved
    learned_words_cache,      \* LearningService._learned_words_cache
    cache_loaded,             \* LearningService._cache_loaded
    kamus_dokumen,            \* the live set KAMUS_DOKUMEN
    req,                      \* the /extract handlers in flight
    last,                     \* the last vocabulary operation and what it returned
    tracked,                  \* per word: track calls since it was absent
    \* ---- one correction pass ----
    fuzz_env,                 \* HAS_RAPIDFUZZ, and the set order extractOne meets
    text_in,                  \* the text given to correct_with_stats
    koreksi,                  \* what correct_with_stats returned
    koreksi_ulang,            \* what correct_with_stats returned on its own output
    \* ---- the text stages of extract_text ----
    normalize_spelling,       \* form field normalize_spelling
    use_dictionary,           \* form field use_dictionary
    text_to_process,          \* the text the next stage reads
    normalized_text,          \* the text reported as normalized_text
    post                      \* the stage the handler has completed

VARIABLES
    \* ---- two calls of calculate_quality_score ----
    score_text,               \* text, the same in both calls
    dictionary_corrections,   \* dictionary_corrections, the same in both calls
    confidence_first,         \* confidence_scores of the first call, in hundredths
    confidence_second,        \* confidence_scores of the second call, in hundredths
    quality_first,            \* the QualityScoreResult of the first call
    quality_second            \* the QualityScoreResult of the second call

vocabVars == <<learned_words, learned_words_cache, cache_loaded, kamus_dokumen,
               req, last, tracked>>

corrVars == <<fuzz_env, text_in, koreksi, koreksi_ulang, normalize_spelling,
              use_dictionary, text_to_process, normalized_text, post>>

scoreVars == <<score_text, dictionary_corrections, confidence_first,
               confidence_second, quality_first, quality_second>>

VARIABLES
    \* ---- OCRService: startup and the recognition calls ----
    host,                     \* what is installed where the service runs
    use_paddle,               \* USE_PADDLE, from the environment variable OCR_ENGINE
    tesseract_engine,         \* OCRService._tesseract_engine is set
    paddle_engine,            \* OCRService._paddle_engine is set
    default_engine_name,      \* OCRService._default_engine_name
    available_engines,        \* OCRService._available_engines
    lock,                     \* OCRService._lock: free, or the holder
    startup,                  \* position of init_engine, called by startup_event
    worker                    \* the threads calling OCRService.baca_gambar

engineVars == <<host, use_paddle, tesseract_engine, paddle_engine,
                default_engine_name, available_engines, lock, startup, worker>>

VARIABLES
    \* ---- POST /extract: the handler and the history it writes ----
    upload,                   \* per request: the file sent and what its pipeline meets
    handler,                  \* per request: position of extract_text
    ocr_history,              \* table ocr_history, in insertion order
    http                      \* per request: what the caller receives

extractVars == <<upload, handler, ocr_history, http>>

VARIABLES
    \* ---- track_unknown_words called by several worker processes ----
    conn,                     \* per process: its call and its database connection
    write_lock,               \* the process that holds the write lock of the file
    first_store               \* table learned_words before the calls

trackVars == <<conn, write_lock, first_store>>

VARIABLES
    \* ---- the API keys of DatabaseService ----
    api_keys,                 \* table api_keys, the row of id i at position i
    key_reply,                \* the last operation on the keys and what it returned
    \* ---- RateLimitMiddleware ----
    sekarang,                 \* time.time(), in seconds
    catatan_request,          \* RateLimitMiddleware.catatan_request
    passed_on,                \* per client: the times of its requests handed to call_next
    rate_reply                \* the last request of the middleware and its answer

keyVars == <<api_keys, key_reply>>

rateVars == <<sekarang, catatan_request, passed_on, rate_reply>>

apiVars == <<extractVars, trackVars, keyVars, rateVars>>

vars == <<pageVars, vocabVars, corrVars, scoreVars, engineVars, apiVars>>

(***************************************************************************)
(* Bounds of the model and constants of the program.                       *)
(***************************************************************************)
MaxPages == 3

\* tracking stops at this frequency
MaxFreq == 5

PDF_WORKERS == 2

(***************************************************************************)
(* Text.  A text is a sequence of characters; the operators below are the  *)
(* str methods and the regular expressions the correction code uses.       *)
(***************************************************************************)
LowerLetters == <<"a", "b", "c", "d", "e", "f", "g", "h", "i", "j", "k", "l", "m", "n", "o", "p", "q", "r", "s", "t", "u", "v", "w", "x", "y", "z">>

UpperLetters == <<"A", "B", "C", "D", "E", "F", "G", "H", "I", "J", "K", "L", "M", "N", "O", "P", "Q", "R", "S", "T", "U", "V", "W", "X", "Y", "Z">>

Digits == {"0", "1", "2", "3", "4", "5", "6", "7", "8", "9"}

Whitespace == {" ", "\n", "\t"}

LowerSet == {LowerLetters[i] : i \in 1 .. 26}

UpperSet == {UpperLetters[i] : i \in 1 .. 26}

\* str.lower and str.upper of one letter
ToLower == [c \in UpperSet |-> LowerLetters[CHOOSE i \in 1 .. 26 : UpperLetters[i] = c]]

ToUpper == [c \in LowerSet |-> UpperLetters[CHOOSE i \in 1 .. 26 : LowerLetters[i] = c]]

IsLower(c) == c \in LowerSet

IsUpper(c) == c \in UpperSet

IsAlpha(c) == IsLower(c) \/ IsUpper(c)

IsDigit(c) == c \in Digits

IsSpace(c) == c \in Whitespace

\* \w of the re module
IsWordChar(c) == IsAlpha(c) \/ IsDigit(c) \/ c = "_"

\* [\w\-\']
IsTokenChar(c) == IsWordChar(c) \/ c = "-" \/ c = "'"

LowerChar(c) == IF IsUpper(c) THEN ToLower[c] ELSE c

UpperChar(c) == IF IsLower(c) THEN ToUpper[c] ELSE c

\* str.lower, str.upper
StrLower(s) == [i \in 1 .. Len(s) |-> LowerChar(s[i])]

StrUpper(s) == [i \in 1 .. Len(s) |-> UpperChar(s[i])]

\* str.isupper: some cased character and no lowercase one
StrIsUpper(s) ==
    /\ \E i \in 1 .. Len(s) : IsUpper(s[i])
    /\ \A i \in 1 .. Len(s) : ~IsLower(s[i])

\* str.isalpha
StrIsAlpha(s) == Len(s) > 0 /\ \A i \in 1 .. Len(s) : IsAlpha(s[i])

\* str.capitalize
StrCapitalize(s) ==
    [i \in 1 .. Len(s) |-> IF i = 1 THEN UpperChar(s[i]) ELSE LowerChar(s[i])]

\* str.title: a letter after a non-letter is upper case, any other is lower
StrTitle(s) ==
    [i \in 1 .. Len(s) |->
        IF i = 1 \/ ~IsAlpha(s[IF i = 1 THEN 1 ELSE i - 1])
        THEN UpperChar(s[i]) ELSE LowerChar(s[i])]

\* s with every occurrence of the character c removed
RECURSIVE StrRemove(_, _)
StrRemove(s, c) ==
    IF s = <<>> THEN <<>>
    ELSE (IF Head(s) = c THEN <<>> ELSE <<Head(s)>>) \o StrRemove(Tail(s), c)

\* ''.join(parts)
RECURSIVE Concat(_)
Concat(parts) == IF parts = <<>> THEN <<>> ELSE Head(parts) \o Concat(Tail(parts))

Max(a, b) == IF a >= b THEN a ELSE b

\* the end of the run of characters satisfying a class that starts at pos
\* (pos - 1 when the run is empty)
RunEnd(s, pos, Class(_)) ==
    CHOOSE e \in (pos - 1) .. Len(s) :
        /\ \A i \in pos .. e : Class(s[i])
        /\ e = Len(s) \/ ~Class(s[e + 1])

NotSpace(c) == ~IsSpace(c)

NotWordChar(c) == ~IsWordChar(c)

NotTokenChar(c) == ~IsTokenChar(c)

(***************************************************************************)
(* The dictionary correction: dictionary_corrector.py.  The tables hold    *)
(* the entries of the source tables that the texts of the model can meet,  *)
(* in the order of the source.                                             *)
(***************************************************************************)
w_jalan == <<"j", "a", "l", "a", "n">>

w_krmat == <<"k", "r", "m", "a", "t">>

w_jakrta == <<"j", "a", "k", "r", "t", "a">>

w_gedumg == <<"g", "e", "d", "u", "m", "g">>

w_wedus == <<"w", "e", "d", "u", "s">>

w_kramat == <<"k", "r", "a", "m", "a", "t">>

w_jakarta == <<"j", "a", "k", "a", "r", "t", "a">>

w_gedung == <<"g", "e", "d", "u", "n", "g">>

w_camat == <<"c", "a", "m", "a", "t">>

w_djawatan == <<"d", "j", "a", "w", "a", "t", "a", "n">>

w_gedun == <<"g", "e", "d", "u", "n">>

w_hormat == <<"h", "o", "r", "m", "a", "t">>

w_jaksra == <<"j", "a", "k", "s", "r", "a">>

w_istri == <<"i", "s", "t", "r", "i">>

w_listrik == <<"l", "i", "s", "t", "r", "i", "k">>

w_yang == <<"y", "a", "n", "g">>

w_ujang == <<"u", "j", "a", "n", "g">>

w_djalan == <<"d", "j", "a", "l", "a", "n">>

w_hadjah == <<"h", "a", "d", "j", "a", "h">>

w_jumat == <<"j", "u", "m", "a", "t">>

w_hajjah == <<"h", "a", "j", "j", "a", "h">>

w_panjang == <<"p", "a", "n", "j", "a", "n", "g">>

w_jalan_krmat == <<"j", "a", "l", "a", "n", " ", "k", "r", "m", "a", "t">>

w_jalan_kramat == <<"j", "a", "l", "a", "n", " ", "k", "r", "a", "m", "a", "t">>

\* KAMUS_DOKUMEN as the module defines it, before learned words are merged
KAMUS_DOKUMEN ==
    {w_djawatan, w_camat, w_jalan, w_gedung, w_kramat, w_jakarta, w_istri,
     w_yang, w_panjang, w_djalan, w_ujang, w_hadjah, w_jumat,
     w_hajjah}

\* PHRASE_CORRECTIONS: <<wrong, correct>>
PHRASE_CORRECTIONS ==
    << <<w_camat, w_djawatan>>,
       <<w_gedun, w_gedung>>,
       <<w_jakrta, w_jakarta>>,
       <<w_krmat, w_kramat>> >>

\* MULTI_WORD_CORRECTIONS: <<wrong, correct>>
MULTI_WORD_CORRECTIONS ==
    << <<w_jalan_krmat, w_jalan_kramat>>,
       <<w_hormat, w_hormat>>,
       <<w_krmat, w_hormat>>,
       <<w_jaksra, w_jakarta>>,
       <<w_istri, w_listrik>> >>

\* the cutoff of _find_best_match
FUZZY_THRESHOLD == 65

InPhrase(k) == \E i \in 1 .. Len(PHRASE_CORRECTIONS) : PHRASE_CORRECTIONS[i][1] = k

PhraseGet(k) ==
    PHRASE_CORRECTIONS[CHOOSE i \in 1 .. Len(PHRASE_CORRECTIONS) :
                          PHRASE_CORRECTIONS[i][1] = k][2]

\* sorted(keys, key=len, reverse=True): a stable sort, longest key first
RECURSIVE InsertByLen(_, _)
InsertByLen(rule, sorted) ==
    IF sorted = <<>> THEN <<rule>>
    ELSE IF Len(Head(sorted)[1]) >= Len(rule[1])
         THEN <<Head(sorted)>> \o InsertByLen(rule, Tail(sorted))
         ELSE <<rule>> \o sorted

RECURSIVE SortRules(_, _)
SortRules(rules, sorted) ==
    IF rules = <<>> THEN sorted
    ELSE SortRules(Tail(rules), InsertByLen(Head(rules), sorted))

SortedRules == SortRules(MULTI_WORD_CORRECTIONS, <<>>)

\* The compiled pattern of a key matched at pos, ignoring case, a space of
\* the key matching a run of whitespace: the last position of the match, or
\* -1 when there is none.
RECURSIVE MatchEnd(_, _, _, _)
MatchEnd(text, pos, wrong, k) ==
    IF k > Len(wrong) THEN pos - 1
    ELSE IF pos > Len(text) THEN -1
    ELSE IF wrong[k] = " "
         THEN IF IsSpace(text[pos])
              THEN MatchEnd(text, RunEnd(text, pos, IsSpace) + 1, wrong, k + 1)
              ELSE -1
         ELSE IF LowerChar(text[pos]) = LowerChar(wrong[k])
              THEN MatchEnd(text, pos + 1, wrong, k + 1)
              ELSE -1

\* replacer: the case style of the replacement follows the matched span
Replacer(original, correct) ==
    IF StrIsUpper(original) THEN StrUpper(correct)
    ELSE IF IsUpper(original[1]) THEN StrTitle(correct)
    ELSE correct

\* pattern.sub(replacer, result): leftmost matches, left to right
RECURSIVE PatternSub(_, _, _, _)
PatternSub(text, pos, wrong, correct) ==
    IF pos > Len(text) THEN <<>>
    ELSE LET e == MatchEnd(text, pos, wrong, 1)
         IN  IF e >= pos
             THEN Replacer(SubSeq(text, pos, e), correct)
                  \o PatternSub(text, e + 1, wrong, correct)
             ELSE <<text[pos]>> \o PatternSub(text, pos + 1, wrong, correct)

RECURSIVE ApplyRules(_, _)
ApplyRules(text, rules) ==
    IF rules = <<>> THEN text
    ELSE CHOOSE result \in
             {ApplyRules(new_result, Tail(rules)) :
                 new_result \in {PatternSub(text, 1, Head(rules)[1], Head(rules)[2])}} :
             TRUE

\* _apply_multi_word_corrections
ApplyMultiWordCorrections(text) == ApplyRules(text, SortedRules)

\* _is_valid_word
IsValidWord(kata) ==
    /\ Len(kata) >= 3
    /\ \A i \in 1 .. Len(kata) : ~IsDigit(kata[i])
    /\ StrIsAlpha(StrRemove(StrRemove(kata, "-"), "'"))

\* one row of the longest-common-subsequence table: cell j is the length for
\* the letters of a read so far, ch the last of them, and the first j of b
RECURSIVE LCSCells(_, _, _, _)
LCSCells(prev, ch, b, cur) ==
    IF Len(cur) = Len(b) THEN cur
    ELSE LET j == Len(cur) + 1
             left == IF j = 1 THEN 0 ELSE cur[j - 1]
             diag == IF j = 1 THEN 0 ELSE prev[j - 1]
         IN  CHOOSE cells \in
                 {LCSCells(prev, ch, b, next) :
                     next \in {Append(cur, IF ch = b[j] THEN diag + 1
                                           ELSE Max(prev[j], left))}} : TRUE

RECURSIVE LCSRows(_, _, _)
LCSRows(a, b, prev) ==
    IF a = <<>> THEN prev
    ELSE CHOOSE rows \in
             {LCSRows(Tail(a), b, row) :
                 row \in {LCSCells(prev, Head(a), b, <<>>)}} : TRUE

\* the length of a longest common subsequence
LCS(a, b) ==
    IF a = <<>> \/ b = <<>> THEN 0
    ELSE LCSRows(a, b, [j \in 1 .. Len(b) |-> 0])[Len(b)]

\* fuzz.ratio(a, b) = 100 * 2 * LCS / (len(a) + len(b)), kept as a fraction:
\* RatioNum / RatioDen
RatioNum(a, b) == 200 * LCS(a, b)

RatioDen(a, b) == Len(a) + Len(b)

\* the ratio is above the cutoff, the cutoff itself left out
ScoreAbove(a, b, cutoff) == RatioNum(a, b) > cutoff * RatioDen(a, b)

ScoreAtLeast(a, b, cutoff) == RatioNum(a, b) >= cutoff * RatioDen(a, b)

\* an order of the words, to name the first and the last of equal matches
RECURSIVE WordLess(_, _)
WordLess(a, b) ==
    IF b = <<>> THEN FALSE
    ELSE IF a = <<>> THEN TRUE
    ELSE LET ia == CHOOSE i \in 1 .. 26 : LowerLetters[i] = LowerChar(Head(a))
             ib == CHOOSE i \in 1 .. 26 : LowerLetters[i] = LowerChar(Head(b))
         IN  IF ia # ib THEN ia < ib ELSE WordLess(Tail(a), Tail(b))

\* process.extractOne(kata_lower, KAMUS_DOKUMEN, scorer=fuzz.ratio,
\* score_cutoff=threshold): the matches of the highest score that reaches
\* the cutoff.  Which of several equal ones the set iteration meets first is
\* not fixed by the code: pick names the one taken.
BestMatches(kata_lower, kamus, threshold) ==
    LET above == {c \in kamus : ScoreAtLeast(kata_lower, c, threshold)}
    IN  {c \in above :
            \A o \in above :
                RatioNum(kata_lower, c) * RatioDen(kata_lower, o)
                    >= RatioNum(kata_lower, o) * RatioDen(kata_lower, c)}

ExtractOne(kata_lower, kamus, threshold, pick) ==
    LET best == BestMatches(kata_lower, kamus, threshold)
    IN  IF pick = "first"
        THEN CHOOSE c \in best : \A o \in best : o = c \/ WordLess(c, o)
        ELSE CHOOSE c \in best : \A o \in best : o = c \/ WordLess(o, c)

\* _find_best_match; <<>> stands for None
FindBestMatch(kata, kamus, env) ==
    LET kata_lower == StrLower(kata)
    IN  IF ~env.has_rapidfuzz THEN <<>>
        ELSE IF kata_lower \in kamus THEN <<>>
        ELSE IF BestMatches(kata_lower, kamus, FUZZY_THRESHOLD) = {} THEN <<>>
        ELSE LET match == ExtractOne(kata_lower, kamus, FUZZY_THRESHOLD, env.pick)
             IN  IF StrIsUpper(kata) THEN StrUpper(match)
                 ELSE IF IsUpper(kata[1]) THEN StrCapitalize(match)
                 ELSE match

\* correct_word
CorrectWord(kata, kamus, env) ==
    IF kata = <<>> THEN kata
    ELSE LET kata_lower == StrLower(kata)
         IN  IF InPhrase(kata_lower)
             THEN LET corrected == PhraseGet(kata_lower)
                  IN  IF StrIsUpper(kata) THEN StrUpper(corrected)
                      ELSE IF IsUpper(kata[1]) THEN StrCapitalize(corrected)
                      ELSE corrected
             ELSE IF ~IsValidWord(kata) THEN kata
             ELSE LET corrected == FindBestMatch(kata, kamus, env)
                  IN  IF corrected # <<>> THEN corrected ELSE kata

\* re.findall(r'\S+|\s+', text)
RECURSIVE Tokens(_, _)
Tokens(text, pos) ==
    IF pos > Len(text) THEN <<>>
    ELSE LET e == IF IsSpace(text[pos]) THEN RunEnd(text, pos, IsSpace)
                  ELSE RunEnd(text, pos, NotSpace)
         IN  <<SubSeq(text, pos, e)>> \o Tokens(text, e + 1)

\* what one token adds to hasil and to corrections
Counted(word, corrected) == IF corrected # word THEN 1 ELSE 0

\* the fallback: re.split(r'([^\w\-\']+)', token), each word piece corrected
RECURSIVE SubTokens(_, _, _, _)
SubTokens(token, pos, kamus, env) ==
    IF pos > Len(token) THEN [out |-> <<>>, n |-> 0]
    ELSE IF IsTokenChar(token[pos])
         THEN LET e == RunEnd(token, pos, IsTokenChar)
                  sub == SubSeq(token, pos, e)
                  corr == CorrectWord(sub, kamus, env)
                  rest == SubTokens(token, e + 1, kamus, env)
              IN  [out |-> corr \o rest.out, n |-> Counted(sub, corr) + rest.n]
         ELSE LET e == RunEnd(token, pos, NotTokenChar)
                  rest == SubTokens(token, e + 1, kamus, env)
              IN  [out |-> SubSeq(token, pos, e) \o rest.out, n |-> rest.n]

\* ^([^\w]*)([\w\-\']+)([^\w]*)$ : the ends <<p, w>> of prefix and word
PrefixWordSplits(token) ==
    {pw \in (0 .. Len(token)) \X (1 .. Len(token)) :
        /\ pw[1] < pw[2]
        /\ \A i \in 1 .. pw[1] : ~IsWordChar(token[i])
        /\ \A i \in (pw[1] + 1) .. pw[2] : IsTokenChar(token[i])
        /\ \A i \in (pw[2] + 1) .. Len(token) : ~IsWordChar(token[i])}

\* the split the greedy match takes: the longest prefix, then the longest word
GreedySplit(token) ==
    CHOOSE pw \in PrefixWordSplits(token) :
        \A o \in PrefixWordSplits(token) :
            o[1] < pw[1] \/ (o[1] = pw[1] /\ o[2] <= pw[2])

\* the body of the token loop of correct_with_stats for a non-blank token
CorrectToken(token, kamus, env) ==
    LET d == RunEnd(token, 1, IsDigit)
        l == RunEnd(token, 1, IsAlpha)
    IN  IF /\ d >= 1 /\ Len(token) - d >= 3
           /\ \A i \in (d + 1) .. Len(token) : IsAlpha(token[i])
        THEN \* ^(\d+)([a-zA-Z]{3,})$
             LET word_part == SubSeq(token, d + 1, Len(token))
                 corrected_word == CorrectWord(word_part, kamus, env)
             IN  [out |-> SubSeq(token, 1, d) \o <<" ">> \o corrected_word,
                  n |-> Counted(word_part, corrected_word)]
        ELSE IF /\ l >= 3 /\ Len(token) > l
                /\ \A i \in (l + 1) .. Len(token) : IsDigit(token[i])
        THEN \* ^([a-zA-Z]{3,})(\d+)$
             LET word_part == SubSeq(token, 1, l)
                 corrected_word == CorrectWord(word_part, kamus, env)
             IN  [out |-> corrected_word \o <<" ">> \o SubSeq(token, l + 1, Len(token)),
                  n |-> Counted(word_part, corrected_word)]
        ELSE IF PrefixWordSplits(token) # {}
        THEN LET pw == GreedySplit(token)
                 word == SubSeq(token, pw[1] + 1, pw[2])
                 corrected == CorrectWord(word, kamus, env)
             IN  [out |-> SubSeq(token, 1, pw[1]) \o corrected
                          \o SubSeq(token, pw[2] + 1, Len(token)),
                  n |-> Counted(word, corrected)]
        ELSE SubTokens(token, 1, kamus, env)

RECURSIVE CorrectTokens(_, _, _)
CorrectTokens(tokens, kamus, env) ==
    IF tokens = <<>> THEN [out |-> <<>>, n |-> 0]
    ELSE LET token == Head(tokens)
             this == IF IsSpace(token[1]) THEN [out |-> token, n |-> 0]
                     ELSE CorrectToken(token, kamus, env)
             rest == CorrectTokens(Tail(tokens), kamus, env)
         IN  [out |-> this.out \o rest.out, n |-> this.n + rest.n]

\* correct_with_stats: (text, corrections)
CorrectWithStats(text, kamus, env) ==
    IF text = <<>> THEN [text |-> text, corrections |-> 0]
    ELSE CHOOSE result \in
             {[text |-> r.out, corrections |-> r.n] :
                 r \in {CorrectTokens(tokens, kamus, env) :
                           tokens \in {Tokens(ApplyMultiWordCorrections(text), 1)}}} :
             TRUE

(***************************************************************************)
(* The orthography normalization: spelling_normalizer.py.                   *)
(***************************************************************************)
w_jang == <<"j", "a", "n", "g">>

w_mendjadi == <<"m", "e", "n", "d", "j", "a", "d", "i">>

w_tjhaja == <<"t", "j", "h", "a", "j", "a">>

w_tjamat == <<"t", "j", "a", "m", "a", "t">>

w_jangan == <<"j", "a", "n", "g", "a", "n">>

w_ja == <<"j", "a">>

w_ya == <<"y", "a">>

w_jaitu == <<"j", "a", "i", "t", "u">>

w_jaitoe == <<"j", "a", "i", "t", "o", "e">>

w_yaitu == <<"y", "a", "i", "t", "u">>

\* KATA_ASING: the entry the texts of the model can meet
KATA_ASING == {w_panjang}

\* RULES_EJAAN: <<pattern, replacement>>, in the order of the source
RULES_EJAAN ==
    << << <<"o", "e">>, <<"u">> >>,
       << <<"d", "j">>, <<"j">> >>,
       << <<"t", "j">>, <<"c">> >>,
       << <<"n", "j">>, <<"n", "y">> >>,
       << <<"s", "j">>, <<"s", "y">> >>,
       << <<"c", "h">>, <<"k", "h">> >> >>

\* KATA_J_KE_Y: <<kata, replacement>>
KATA_J_KE_Y ==
    << <<w_jang, w_yang>>,
       <<w_jangan, w_jangan>>,
       <<w_ja, w_ya>>,
       <<w_jaitu, w_yaitu>>,
       <<w_jaitoe, w_yaitu>> >>

\* is_kata_asing
IsKataAsing(kata) == StrLower(kata) \in KATA_ASING

\* replacer of _replace_preserve_case: the case follows the matched digraph
PreserveCase(matched, replacement) ==
    IF StrIsUpper(matched) THEN StrUpper(replacement)
    ELSE IF IsUpper(matched[1]) THEN StrCapitalize(replacement)
    ELSE replacement

\* _replace_preserve_case: re.sub(pattern, replacer, text, flags=re.IGNORECASE)
RECURSIVE ReplacePreserveCase(_, _, _, _)
ReplacePreserveCase(text, pos, pattern, replacement) ==
    IF pos > Len(text) THEN <<>>
    ELSE LET e == MatchEnd(text, pos, pattern, 1)
         IN  IF e >= pos
             THEN PreserveCase(SubSeq(text, pos, e), replacement)
                  \o ReplacePreserveCase(text, e + 1, pattern, replacement)
             ELSE <<text[pos]>> \o ReplacePreserveCase(text, pos + 1, pattern, replacement)

\* for pattern, replacement in RULES_EJAAN: hasil = _replace_preserve_case(...)
RECURSIVE ApplyEjaan(_, _)
ApplyEjaan(hasil, rules) ==
    IF rules = <<>> THEN hasil
    ELSE CHOOSE result \in
             {ApplyEjaan(replaced, Tail(rules)) :
                 replaced \in {ReplacePreserveCase(hasil, 1, Head(rules)[1],
                                                   Head(rules)[2])}} : TRUE

InJKeY(k) == \E i \in 1 .. Len(KATA_J_KE_Y) : KATA_J_KE_Y[i][1] = k

JKeYGet(k) == KATA_J_KE_Y[CHOOSE i \in 1 .. Len(KATA_J_KE_Y) : KATA_J_KE_Y[i][1] = k][2]

\* normalize_kata
NormalizeKata(kata) ==
    IF IsKataAsing(kata) THEN kata
    ELSE IF InJKeY(StrLower(kata))
         THEN IF IsUpper(kata[1]) THEN StrCapitalize(JKeYGet(StrLower(kata)))
              ELSE JKeYGet(StrLower(kata))
         ELSE ApplyEjaan(kata, RULES_EJAAN)

RECURSIVE NormalizeTokens(_)
NormalizeTokens(tokens) ==
    IF tokens = <<>> THEN <<>>
    ELSE (IF IsSpace(Head(tokens)[1]) THEN Head(tokens) ELSE NormalizeKata(Head(tokens)))
         \o NormalizeTokens(Tail(tokens))

\* normalize_text; normalize_with_comparison returns it as its second value
NormalizeText(text) ==
    IF text = <<>> THEN text ELSE NormalizeTokens(Tokens(text, 1))

(***************************************************************************)
(* Recognition is a black box: a page yields a text with its confidence    *)
(* values (in percent), or the call raises.                                *)
(***************************************************************************)
Engines == {"tesseract", "paddle"}

PageResults ==
    { [raises |-> FALSE, text |-> "",     confidences |-> <<>>],
      [raises |-> FALSE, text |-> "satu", confidences |-> <<90>>],
      [raises |-> FALSE, text |-> "dua",  confidences |-> <<50, 70>>],
      [raises |-> TRUE,  text |-> "",     confidences |-> <<>>] }

Pages == 0 .. (doc.n - 1)

\* Settings.PARALLEL_PDF_PROCESSING: os.getenv("PARALLEL_PDF_PROCESSING",
\* "false" if IS_DOCKER else "true").lower() == "true"
ParallelPdfProcessing(is_docker, env_parallel) ==
    LET default == IF is_docker THEN "false" ELSE "true"
        value == IF env_parallel = "unset" THEN default ELSE env_parallel
    IN  value = "true"

NoResponse == [success |-> FALSE, text |-> "", pages |-> -1, error_code |-> "NONE"]

Min(a, b) == IF a <= b THEN a ELSE b

\* TesseractEngine starts one subprocess per call on its own temp file;
\* PaddleOCREngine calls the one shared in-process model object self.ocr.
Reentrant(engine) == engine = "tesseract"

\* The message of the exception a failed recognition raises.
PesanError(engine) ==
    IF engine = "tesseract" THEN "tesseract error" ELSE "error"

\* extract_text: the error code is chosen by words of the message.
KodeError(pesan) ==
    IF pesan \in {"pdf", "poppler"} THEN "PDF_CONVERSION_ERROR"
    ELSE IF pesan = "tesseract error" THEN "OCR_ENGINE_ERROR"
    ELSE "INTERNAL_ERROR"

DictGet(d, k, default) == IF k \in DOMAIN d THEN d[k] ELSE default

DictPut(d, k, v) == [x \in (DOMAIN d) \cup {k} |-> IF x = k THEN v ELSE d[x]]

RECURSIVE Join(_, _)
Join(parts, sep) ==
    IF parts = <<>> THEN ""
    ELSE IF Len(parts) = 1 THEN parts[1]
    ELSE parts[1] \o sep \o Join(Tail(parts), sep)

\* f"--- Halaman {idx + 1} ---\n{text}"
Halaman(idx, text) == "--- Halaman " \o ToString(idx + 1) \o " ---\n" \o text

\* The page blocks of the parallel branch: for idx in range(jumlah_halaman).
RECURSIVE RebuildText(_, _, _)
RebuildText(hasil, idx, n) ==
    IF idx >= n THEN <<>>
    ELSE LET text == DictGet(hasil, idx, "")
         IN  (IF text # "" THEN <<Halaman(idx, text)>> ELSE <<>>)
             \o RebuildText(hasil, idx + 1, n)

RECURSIVE RebuildConfidences(_, _, _)
RebuildConfidences(confs, idx, n) ==
    IF idx >= n THEN <<>>
    ELSE DictGet(confs, idx, <<>>) \o RebuildConfidences(confs, idx + 1, n)

Running == {i \in Pages : task[i] = "running"}

\* A pool with a worker for every page.
WorkerPerPage == doc.n

\* max_workers = min(settings.PDF_WORKERS, jumlah_halaman)
MaxWorkers == Min(PDF_WORKERS, doc.n)

Parallel == ParallelPdfProcessing(doc.is_docker, doc.env_parallel)

(***************************************************************************)
(* The vocabulary at rest, and no correction asked.                        *)
(***************************************************************************)
\* the words the texts of the model bring that no table knows
Words == {w_wedus, w_gedumg}

\* the /extract requests in flight at once
Handlers == {"h1", "h2"}

\* HAS_RAPIDFUZZ, and which of several equal best matches extractOne meets
Envs == [has_rapidfuzz : BOOLEAN, pick : {"first", "last"}]

NoLast ==
    [op |-> "startup", mode |-> "none", words |-> {}, pending |-> {},
     newly_approved |-> 0, ok |-> TRUE]

IdleReq == [phase |-> "idle", text |-> <<>>, seen |-> {}, todo |-> {},
            koreksi |-> <<>>]

NoCorrection == [text |-> <<>>, corrections |-> -1]

\* rapidfuzz is installed; the first of equal matches is met
DefaultEnv == [has_rapidfuzz |-> TRUE, pick |-> "first"]

\* LearningService.__init__ and the startup event on an empty store.
IdleVocab ==
    /\ learned_words = <<>>
    /\ learned_words_cache = {}
    /\ cache_loaded = TRUE
    /\ kamus_dokumen = KAMUS_DOKUMEN
    /\ req = [h \in Handlers |-> IdleReq]
    /\ last = NoLast
    /\ tracked = [w \in Words |-> 0]

\* the threads that call baca_gambar: two workers of proses_file
Workers == {"w1", "w2"}

IdleWorker == [pc |-> "idle", image |-> "none", engine |-> "none", raised_in |-> "none"]

\* a host with Tesseract and OpenCV, before startup
IdleEngine ==
    /\ host = [tesseract_installed |-> TRUE, tesseract_init |-> "ok",
               paddle |-> "not_installed", imaging |-> "cv2"]
    /\ use_paddle = "auto"
    /\ tesseract_engine = FALSE
    /\ paddle_engine = FALSE
    /\ default_engine_name = "None"
    /\ available_engines = <<>>
    /\ lock = "free"
    /\ startup = "not_started"
    /\ worker = [w \in Workers |-> IdleWorker]

\* the /extract requests of the history model, named by their file
Requests == {"r1.png", "r2.png"}

\* a file that passes every check and a pipeline that meets no error
PlainUpload == [file |-> "ok", enhance |-> FALSE, fails_in |-> "none",
                learning_raises |-> FALSE, text |-> ""]

\* nothing sent to the caller yet
NoHttp == [status |-> 0, success |-> FALSE, pages |-> 0, error_code |-> "NONE"]

\* no request has arrived and the history is empty
IdleExtract ==
    /\ upload = [h \in Requests |-> PlainUpload]
    /\ handler = [h \in Requests |-> "idle"]
    /\ ocr_history = <<>>
    /\ http = [h \in Requests |-> NoHttp]

\* the worker processes that share the database file
Processes == {"p1", "p2", "p3"}

\* fetchone() returned None
NoRow == [frequency |-> 0, is_approved |-> FALSE]

\* a process outside track_unknown_words
IdleConn == [pc |-> "idle", todo |-> <<>>, row |-> NoRow, found |-> FALSE,
             writes |-> <<>>, newly_approved |-> 0, cache |-> {}]

\* no process is in track_unknown_words
IdleTrack ==
    /\ conn = [p \in Processes |-> IdleConn]
    /\ write_lock = "free"
    /\ first_store = <<>>

NoKeyReply == [op |-> "none", key |-> "none", key_id |-> 0, valid |-> FALSE]

IdleKeys ==
    /\ api_keys = <<>>
    /\ key_reply = NoKeyReply

\* the clients of the rate limiter: an X-API-Key header, or the address of
\* a caller that sends none
Clients == {"sk-ocr-1", "10.0.0.7"}

NoRateReply == [client |-> "none", path |-> "none", status |-> 0, waktu |-> 0]

IdleRate ==
    /\ sekarang = 0
    /\ catatan_request = [c \in Clients |-> <<>>]
    /\ passed_on = [c \in Clients |-> <<>>]
    /\ rate_reply = NoRateReply

IdleApi ==
    /\ IdleExtract
    /\ IdleTrack
    /\ IdleKeys
    /\ IdleRate

\* no QualityScoreResult yet
NoQuality ==
    [overall |-> -1, label |-> "None", confidence |-> 0, dictionary_match |-> 0,
     correction_rate |-> 0, total_words |-> 0, matched_words |-> 0,
     corrected_words |-> 0]

IdleScore ==
    /\ score_text = <<>>
    /\ dictionary_corrections = 0
    /\ confidence_first = <<>>
    /\ confidence_second = <<>>
    /\ quality_first = NoQuality
    /\ quality_second = NoQuality

\* normalized_text = None
None == <<"None">>

IdlePost ==
    /\ normalize_spelling = FALSE
    /\ use_dictionary = FALSE
    /\ text_to_process = <<>>
    /\ normalized_text = None
    /\ post = "ocr"

IdleCorr ==
    /\ text_in = <<>>
    /\ koreksi = NoCorrection
    /\ koreksi_ulang = NoCorrection
    /\ IdlePost
    /\ IdleScore

IdlePages ==
    /\ doc = [is_pdf |-> FALSE, n |-> 1, is_docker |-> FALSE,
              env_parallel |-> "unset", engine |-> "tesseract"]
    /\ outcome = [i \in 0 .. 0 |-> [raises |-> FALSE, text |-> "", confidences |-> <<>>]]
    /\ pc = "start"
    /\ task = [i \in 0 .. 0 |-> "new"]
    /\ finished = <<>>
    /\ yielded = {}
    /\ hasil_per_halaman = <<>>
    /\ confidences_per_halaman = <<>>
    /\ semua_text = <<>>
    /\ all_confidences = <<>>
    /\ text_hasil = ""
    /\ response = NoResponse

(***************************************************************************)
(* The request.                                                            *)
(***************************************************************************)
InitPages ==
    /\ doc \in {d \in [is_pdf : BOOLEAN, n : 1 .. MaxPages,
                       is_docker : BOOLEAN,
                       env_parallel : {"unset", "true", "false"},
                       engine : Engines] :
                   ~d.is_pdf => d.n = 1}
    /\ outcome \in [0 .. (doc.n - 1) -> PageResults]
    /\ pc = "start"
    /\ task = [i \in 0 .. (doc.n - 1) |-> "new"]
    /\ finished = <<>>
    /\ yielded = {}
    /\ hasil_per_halaman = <<>>
    /\ confidences_per_halaman = <<>>
    /\ semua_text = <<>>
    /\ all_confidences = <<>>
    /\ text_hasil = ""
    /\ response = NoResponse
    /\ IdleVocab
    /\ fuzz_env = DefaultEnv
    /\ IdleCorr
    /\ IdleEngine
    /\ IdleApi

\* proses_file up to the choice of the branch.
ProsesFile ==
    /\ pc = "start"
    /\ pc' = IF doc.is_pdf
             THEN IF Parallel /\ doc.n > 1 THEN "submit" ELSE "sequential"
             ELSE "single"
    /\ UNCHANGED <<apiVars, engineVars, scoreVars, vocabVars, corrVars, doc, outcome, task, finished, yielded, hasil_per_halaman,
                   confidences_per_halaman, semua_text, all_confidences,
                   text_hasil, response>>

\* executor.submit of the next page, in enumerate order.
Submit ==
    /\ pc = "submit"
    /\ LET idx == CHOOSE i \in Pages :
                     task[i] = "new" /\ \A j \in Pages : task[j] = "new" => i <= j
       IN  /\ task' = [task EXCEPT ![idx] = "queued"]
           /\ pc' = IF idx = doc.n - 1 THEN "as_completed" ELSE "submit"
    /\ UNCHANGED <<apiVars, engineVars, scoreVars, vocabVars, corrVars, doc, outcome, finished, yielded, hasil_per_halaman,
                   confidences_per_halaman, semua_text, all_confidences,
                   text_hasil, response>>

\* A free worker of the pool takes the oldest queued task and enters
\* baca_gambar.
StartTask(idx) ==
    /\ task[idx] = "queued"
    /\ \A j \in Pages : task[j] = "queued" => idx <= j
    /\ Cardinality(Running) < MaxWorkers
    /\ task' = [task EXCEPT ![idx] = "running"]
    /\ UNCHANGED <<apiVars, engineVars, scoreVars, vocabVars, corrVars, doc, outcome, pc, finished, yielded, hasil_per_halaman,
                   confidences_per_halaman, semua_text, all_confidences,
                   text_hasil, response>>

\* The recognition call of a pool task returns or raises; its future is done.
FinishTask(idx) ==
    /\ pc \in {"submit", "as_completed", "shutdown"}
    /\ task[idx] = "running"
    /\ task' = [task EXCEPT ![idx] = IF outcome[idx].raises THEN "failed" ELSE "done"]
    /\ finished' = Append(finished, idx)
    /\ UNCHANGED <<apiVars, engineVars, scoreVars, vocabVars, corrVars, doc, outcome, pc, yielded, hasil_per_halaman,
                   confidences_per_halaman, semua_text, all_confidences,
                   text_hasil, response>>

\* A result() that turns the exception of a page into an empty page.
FutureResultSkipsFailure(idx) ==
    IF outcome[idx].raises
    THEN [raises |-> FALSE, text |-> "", confidences |-> <<>>]
    ELSE outcome[idx]

\* future.result() of a future as_completed yields.
FutureResult(idx) == outcome[idx]

\* One turn of "for future in as_completed(futures)".
Collect(idx) ==
    /\ pc = "as_completed"
    /\ idx \notin yielded
    /\ task[idx] \in {"done", "failed"}
    /\ yielded' = yielded \cup {idx}
    /\ LET r == FutureResult(idx)
       IN  IF r.raises
           THEN /\ pc' = "shutdown"
                /\ UNCHANGED <<hasil_per_halaman, confidences_per_halaman>>
           ELSE /\ hasil_per_halaman' = DictPut(hasil_per_halaman, idx, r.text)
                /\ confidences_per_halaman' =
                       DictPut(confidences_per_halaman, idx, r.confidences)
                /\ pc' = IF yielded' = Pages THEN "rebuild" ELSE "as_completed"
    /\ UNCHANGED <<apiVars, engineVars, scoreVars, vocabVars, corrVars, doc, outcome, task, finished, semua_text, all_confidences,
                   text_hasil, response>>

\* A shutdown that does not wait for the tasks.
ShutdownNoWait == TRUE

\* ThreadPoolExecutor.__exit__: shutdown(wait=True) joins the workers, which
\* end when the queue of submitted tasks is empty
ShutdownWait == \A i \in Pages : task[i] \in {"done", "failed"}

\* Leaving the with block on an exception: shutdown(wait=True) returns once
\* every submitted task has run, then the exception leaves proses_file.
Shutdown ==
    /\ pc = "shutdown"
    /\ ShutdownWait
    /\ pc' = "raised"
    /\ UNCHANGED <<apiVars, engineVars, scoreVars, vocabVars, corrVars, doc, outcome, task, finished, yielded, hasil_per_halaman,
                   confidences_per_halaman, semua_text, all_confidences,
                   text_hasil, response>>

\* Page blocks in the order the tasks finished.
RECURSIVE FinishedOrderText(_, _)
FinishedOrderText(hasil, order) ==
    IF order = <<>> THEN <<>>
    ELSE LET text == DictGet(hasil, Head(order), "")
         IN  (IF text # "" THEN <<Halaman(Head(order), text)>> ELSE <<>>)
             \o FinishedOrderText(hasil, Tail(order))

RebuildInFinishedOrder(hasil, n) == FinishedOrderText(hasil, finished)

\* The page order in which the parallel branch rebuilds the text.
RebuildOrderText(hasil, n) == RebuildText(hasil, 0, n)

RebuildOrderConfidences(confs, n) == RebuildConfidences(confs, 0, n)

\* The loop over range(jumlah_halaman) after the with block, and the join.
Rebuild ==
    /\ pc = "rebuild"
    /\ semua_text' = RebuildOrderText(hasil_per_halaman, doc.n)
    /\ all_confidences' = RebuildOrderConfidences(confidences_per_halaman, doc.n)
    /\ text_hasil' = Join(semua_text', "\n\n")
    /\ pc' = "returned"
    /\ UNCHANGED <<apiVars, engineVars, scoreVars, vocabVars, corrVars, doc, outcome, task, finished, yielded, hasil_per_halaman,
                   confidences_per_halaman, response>>

\* The sequential branch and the single image enter baca_gambar for the
\* next page.
SeqCall ==
    /\ pc \in {"sequential", "single"}
    /\ \E idx \in Pages :
          /\ task[idx] = "new"
          /\ \A j \in Pages : j < idx => task[j] = "done"
          /\ task' = [task EXCEPT ![idx] = "running"]
    /\ UNCHANGED <<apiVars, engineVars, scoreVars, vocabVars, corrVars, doc, outcome, pc, finished, yielded, hasil_per_halaman,
                   confidences_per_halaman, semua_text, all_confidences,
                   text_hasil, response>>

\* baca_gambar returns to the sequential loop, or raises out of proses_file.
SeqReturn ==
    /\ pc = "sequential"
    /\ \E idx \in Pages :
          /\ task[idx] = "running"
          /\ finished' = Append(finished, idx)
          /\ LET r == outcome[idx]
             IN  IF r.raises
                 THEN /\ task' = [task EXCEPT ![idx] = "failed"]
                      /\ pc' = "raised"
                      /\ UNCHANGED <<semua_text, all_confidences, text_hasil>>
                 ELSE /\ task' = [task EXCEPT ![idx] = "done"]
                      /\ semua_text' =
                             IF r.text # ""
                             THEN Append(semua_text, Halaman(idx, r.text))
                             ELSE semua_text
                      /\ all_confidences' = all_confidences \o r.confidences
                      /\ IF idx = doc.n - 1
                         THEN /\ text_hasil' = Join(semua_text', "\n\n")
                              /\ pc' = "returned"
                         ELSE /\ text_hasil' = text_hasil
                              /\ pc' = "sequential"
    /\ UNCHANGED <<apiVars, engineVars, scoreVars, vocabVars, corrVars, doc, outcome, yielded, hasil_per_halaman,
                   confidences_per_halaman, response>>

\* The single image: text_hasil, all_confidences = self.baca_gambar(...).
SingleReturn ==
    /\ pc = "single"
    /\ task[0] = "running"
    /\ finished' = Append(finished, 0)
    /\ IF outcome[0].raises
       THEN /\ task' = [task EXCEPT ![0] = "failed"]
            /\ pc' = "raised"
            /\ UNCHANGED <<all_confidences, text_hasil>>
       ELSE /\ task' = [task EXCEPT ![0] = "done"]
            /\ text_hasil' = outcome[0].text
            /\ all_confidences' = outcome[0].confidences
            /\ pc' = "returned"
    /\ UNCHANGED <<apiVars, engineVars, scoreVars, vocabVars, corrVars, doc, outcome, yielded, hasil_per_halaman,
                   confidences_per_halaman, semua_text, response>>

\* extract_text after proses_file: the success response, or the except
\* branch's failure response.
Respond ==
    /\ pc \in {"returned", "raised"}
    /\ response' =
          IF pc = "returned"
          THEN [success |-> TRUE, text |-> text_hasil, pages |-> doc.n,
                error_code |-> "NONE"]
          ELSE [success |-> FALSE, text |-> "", pages |-> 0,
                error_code |-> KodeError(PesanError(doc.engine))]
    /\ pc' = "responded"
    /\ UNCHANGED <<apiVars, engineVars, scoreVars, vocabVars, corrVars, doc, outcome, task, finished, yielded, hasil_per_halaman,
                   confidences_per_halaman, semua_text, all_confidences,
                   text_hasil>>

NextPages ==
    \/ ProsesFile
    \/ Submit
    \/ \E idx \in Pages : StartTask(idx)
    \/ \E idx \in Pages : FinishTask(idx)
    \/ \E idx \in Pages : Collect(idx)
    \/ Shutdown
    \/ Rebuild
    \/ SeqCall
    \/ SeqReturn
    \/ SingleReturn
    \/ Respond

SpecPages == InitPages /\ [][NextPages]_vars

(***************************************************************************)
(* Claims about the request.                                               *)
(***************************************************************************)
\* What the sequential loop over the pages yields, page by page.
RECURSIVE SequentialBlocks(_)
SequentialBlocks(idx) ==
    IF idx >= doc.n THEN <<>>
    ELSE (IF outcome[idx].text # ""
          THEN <<Halaman(idx, outcome[idx].text)>> ELSE <<>>)
         \o SequentialBlocks(idx + 1)

RECURSIVE SequentialConfidences(_)
SequentialConfidences(idx) ==
    IF idx >= doc.n THEN <<>>
    ELSE outcome[idx].confidences \o SequentialConfidences(idx + 1)

\* C1: whatever the order in which the page tasks finish and are collected,
\* the text and the confidence list proses_file returns for a PDF are those
\* of the pages taken in increasing index, each non-empty page under its own
\* marker: the parallel branch returns what the sequential branch returns.
C1_PageOrder ==
    (pc = "returned" /\ doc.is_pdf) =>
        /\ text_hasil = Join(SequentialBlocks(0), "\n\n")
        /\ all_confidences = SequentialConfidences(0)

\* C1 witness: a parallel document has returned although a later page
\* finished before an earlier one, both with text.
C1_Witness ==
    /\ pc = "returned" /\ doc.is_pdf /\ Parallel /\ doc.n >= 3
    /\ Len(finished) = doc.n
    /\ finished[1] > finished[2]
    /\ \A i \in Pages : outcome[i].text # ""
    /\ outcome[0].text # outcome[1].text

\* C2: when the recognition of some page raises, proses_file returns no
\* text and the request ends with the failure response (empty text, 0
\* pages, a classified error code), in both branches and every order.
C2_PageFailureFailsDocument ==
    (\E i \in Pages : outcome[i].raises) =>
        /\ pc # "returned"
        /\ text_hasil = ""
        /\ pc = "responded" =>
               /\ response.success = FALSE
               /\ response.text = ""
               /\ response.pages = 0
               /\ response.error_code \in {"OCR_ENGINE_ERROR", "INTERNAL_ERROR"}

\* C2 witness: page 2 of 3 raised in a parallel run whose other two pages
\* were read and collected, and the request has answered.
C2_Witness ==
    /\ pc = "responded" /\ doc.n = 3 /\ Parallel
    /\ outcome[1].raises
    /\ task[0] = "done" /\ task[2] = "done"
    /\ outcome[0].text # "" /\ outcome[2].text # ""
    /\ 0 \in DOMAIN hasil_per_halaman
    /\ response.success = FALSE

\* C9: at most one recognition call is in flight on an engine instance that
\* is not reentrant.
C9_NonReentrantSerialized ==
    ~Reentrant(doc.engine) => Cardinality(Running) <= 1

(***************************************************************************)
(* The vocabulary: learning_service.py, routers/learning.py, and the       *)
(* auto-learn part of extract_text.                                        *)
(***************************************************************************)
FREQUENCY_THRESHOLD == 5

MIN_WORD_LENGTH == 3

\* import_simple_wordlist: WordEntry(word=w, frequency=5, ...)
SIMPLE_IMPORT_FREQUENCY == 5

\* the texts a recognition hands to the correction and the auto-learn
ExtractTexts == {w_gedumg, w_wedus \o <<" ">> \o w_gedumg}

\* the bodies of POST /import
ImportFrequencies == {0, 4}

Entries == [word : Words, frequency : ImportFrequencies, is_approved : BOOLEAN]

EntryLists == {<<e>> : e \in Entries}

ImportModes == {"merge", "replace", "approved_only"}

\* the bodies of POST /import/simple
WordLists == {<<w>> : w \in Words} \cup {<<w, v>> : w, v \in Words}

\* SELECT word FROM learned_words WHERE is_approved = 1
ApprovedWords(store) == {w \in DOMAIN store : store[w].is_approved}

\* get_learned_words on a cache that may not be loaded yet
GetLearnedWords(store, cache, loaded) ==
    IF ~loaded THEN ApprovedWords(store) ELSE cache

\* LearningService._is_valid_word
LearningIsValidWord(word) ==
    /\ Len(word) >= MIN_WORD_LENGTH
    /\ \A i \in 1 .. Len(word) : ~IsDigit(word[i])
    /\ StrIsAlpha(StrRemove(StrRemove(word, "-"), "'"))

\* re.findall(r'[a-zA-Z]{3,}', text)
RECURSIVE AlphaRuns(_, _)
AlphaRuns(text, pos) ==
    IF pos > Len(text) THEN {}
    ELSE IF IsAlpha(text[pos])
         THEN LET e == RunEnd(text, pos, IsAlpha)
              IN  (IF e - pos + 1 >= 3 THEN {SubSeq(text, pos, e)} ELSE {})
                  \cup AlphaRuns(text, e + 1)
         ELSE AlphaRuns(text, pos + 1)

\* get_unknown_words: the unique words of the text the dictionary lacks
GetUnknownWords(text, kamus) ==
    IF text = <<>> THEN {}
    ELSE {StrLower(w) : w \in {v \in AlphaRuns(StrLower(text), 1) :
                                  StrLower(v) \notin kamus}}

\* the states of the live dictionary, and the correction and the extraction
\* of every text on each of them, computed once
KamusStates == {KAMUS_DOKUMEN \cup k : k \in SUBSET Words}

CorrectedTable ==
    {<<<<text, kamus, e>>, CorrectWithStats(text, kamus, e)>> :
        text \in ExtractTexts, kamus \in KamusStates, e \in Envs}

CorrectedOn(text, kamus, e) ==
    (CHOOSE p \in CorrectedTable : p[1] = <<text, kamus, e>>)[2]

UnknownTable ==
    {<<<<text, kamus>>, GetUnknownWords(text, kamus)>> :
        text \in ExtractTexts, kamus \in KamusStates}

UnknownOn(text, kamus) ==
    (CHOOSE p \in UnknownTable : p[1] = <<text, kamus>>)[2]

\* A rule that approves only past the threshold.
AutoApproveAboveThreshold(new_freq, is_approved) ==
    new_freq > FREQUENCY_THRESHOLD /\ ~is_approved

\* track_unknown_words: "if new_freq >= FREQUENCY_THRESHOLD and not is_approved"
AutoApprove(new_freq, is_approved) ==
    new_freq >= FREQUENCY_THRESHOLD /\ ~is_approved

\* track_unknown_words: the loop over the words; the result is the store and
\* newly_approved
RECURSIVE TrackLoop(_, _, _)
TrackLoop(store, unknown_words, newly_approved) ==
    IF unknown_words = {} THEN [store |-> store, newly_approved |-> newly_approved]
    ELSE LET word == CHOOSE w \in unknown_words : TRUE
             word_lower == StrLower(word)
             rest == unknown_words \ {word}
         IN  IF ~LearningIsValidWord(word_lower)
             THEN TrackLoop(store, rest, newly_approved)
             ELSE IF word_lower \in DOMAIN store
             THEN LET new_freq == store[word_lower].frequency + 1
                      is_approved == store[word_lower].is_approved
                  IN  IF AutoApprove(new_freq, is_approved)
                      THEN TrackLoop(DictPut(store, word_lower,
                                         [frequency |-> new_freq, is_approved |-> TRUE]),
                                     rest, newly_approved + 1)
                      ELSE TrackLoop(DictPut(store, word_lower,
                                         [frequency |-> new_freq,
                                          is_approved |-> is_approved]),
                                     rest, newly_approved)
             ELSE TrackLoop(DictPut(store, word_lower,
                                [frequency |-> 1, is_approved |-> FALSE]),
                            rest, newly_approved)

\* WordEntry.validate_frequency
ValidateFrequency(v) == IF v < 1 THEN 1 ELSE IF v > 1000 THEN 1000 ELSE v

\* An import that writes the flag of the entry over the flag of the row.
ImportOverwritesApproval(row_is_approved, entry_is_approved) == entry_is_approved

\* import_learned_words, an existing row: "if entry.is_approved and not
\* row['is_approved']" sets is_approved = 1, else the flag is left alone
ImportedApproval(row_is_approved, entry_is_approved) ==
    IF entry_is_approved /\ ~row_is_approved THEN TRUE ELSE row_is_approved

\* import_learned_words: the loop over the entries
RECURSIVE ImportLoop(_, _, _)
ImportLoop(store, words, mode) ==
    IF words = <<>> THEN store
    ELSE LET entry == [word |-> StrLower(Head(words).word),
                       frequency |-> ValidateFrequency(Head(words).frequency),
                       is_approved |-> Head(words).is_approved]
         IN  IF mode = "approved_only" /\ ~entry.is_approved
             THEN ImportLoop(store, Tail(words), mode)
             ELSE IF entry.word \in DOMAIN store
             THEN LET row == store[entry.word]
                      new_freq == Max(row.frequency, entry.frequency)
                  IN  ImportLoop(DictPut(store, entry.word,
                                     [frequency |-> new_freq,
                                      is_approved |->
                                          ImportedApproval(row.is_approved,
                                                           entry.is_approved)]),
                                 Tail(words), mode)
             ELSE ImportLoop(DictPut(store, entry.word,
                                 [frequency |-> entry.frequency,
                                  is_approved |-> entry.is_approved]),
                             Tail(words), mode)

\* the entries the import does not skip
Processed(words, mode) ==
    {i \in 1 .. Len(words) : ~(mode = "approved_only" /\ ~words[i].is_approved)}

\* A loop on which handlers run at any time.
LoopAlwaysFree == TRUE

\* The handlers are coroutines of one event loop (async def, no await after
\* "await file.read()"): a handler runs when no other is between two awaits.
LoopFree == \A g \in Handlers : req[g].phase \in {"idle", "read"}

\* The track calls a word has met since it was absent from the store, as
\* long as nothing else wrote its row (-1 once something else did).
TrackedAfterTrack(unknown_words) ==
    [w \in Words |-> IF w \in unknown_words /\ tracked[w] >= 0
                     THEN tracked[w] + 1 ELSE tracked[w]]

TrackedAfterImport(words, mode) ==
    [w \in Words |->
        IF \E i \in Processed(words, mode) : StrLower(words[i].word) = w THEN -1
        ELSE IF mode = "replace" THEN 0
        ELSE tracked[w]]

InitVocab ==
    /\ IdlePages
    /\ IdleVocab
    /\ fuzz_env \in {e \in Envs : e.pick = "first"}
    /\ IdleCorr
    /\ IdleEngine
    /\ IdleApi

\* extract_text up to "await file.read()".
Receive(h) ==
    /\ LoopFree
    /\ req[h].phase = "idle"
    /\ req' = [req EXCEPT ![h].phase = "read"]
    /\ last' = [NoLast EXCEPT !.op = "receive"]
    /\ UNCHANGED <<apiVars, engineVars, scoreVars, pageVars, corrVars, learned_words, learned_words_cache,
                   cache_loaded, kamus_dokumen, tracked>>

\* extract_text resumes with the text of the pages: correct_with_stats reads
\* the dictionary.
ExtractBegin(h, text) ==
    /\ LoopFree
    /\ req[h].phase = "read"
    /\ \A w \in UnknownOn(text, kamus_dokumen) \cap DOMAIN learned_words :
           learned_words[w].frequency < MaxFreq
    /\ req' = [req EXCEPT ![h] =
                  [phase |-> "correct", text |-> text, seen |-> kamus_dokumen,
                   todo |-> {},
                   koreksi |-> CorrectedOn(text, kamus_dokumen, fuzz_env).text]]
    /\ last' = [NoLast EXCEPT !.op = "correct"]
    /\ UNCHANGED <<apiVars, engineVars, scoreVars, pageVars, corrVars, learned_words, learned_words_cache,
                   cache_loaded, kamus_dokumen, tracked>>

\* extract_text, the auto-learn: get_unknown_words, track_unknown_words with
\* its refresh, and the start of load_learned_words.
ExtractLearn(h) ==
    /\ req[h].phase = "correct"
    /\ LET unknown_words == UnknownOn(req[h].text, kamus_dokumen)
           r == TrackLoop(learned_words, unknown_words, 0)
           refreshed == IF r.newly_approved > 0 THEN ApprovedWords(r.store)
                        ELSE learned_words_cache
           learned == IF r.newly_approved > 0 THEN refreshed ELSE {}
       IN  /\ \A w \in unknown_words \cap DOMAIN learned_words :
                  learned_words[w].frequency < MaxFreq
           /\ learned_words' = r.store
           /\ learned_words_cache' = refreshed
           /\ cache_loaded' = (cache_loaded \/ r.newly_approved > 0)
           /\ tracked' = TrackedAfterTrack(unknown_words)
           /\ req' = [req EXCEPT ![h] =
                         IF learned # {}
                         THEN [req[h] EXCEPT !.phase = "load", !.todo = learned]
                         ELSE IdleReq]
           /\ last' = [NoLast EXCEPT !.op = IF unknown_words # {} THEN "track"
                                            ELSE "extract",
                                     !.words = unknown_words,
                                     !.newly_approved = r.newly_approved]
    /\ UNCHANGED <<apiVars, engineVars, scoreVars, pageVars, corrVars, kamus_dokumen>>

\* load_learned_words: KAMUS_DOKUMEN.update(learned) adds the words one by
\* one to the live set; the handler returns after the last.
LoadStep(h, w) ==
    /\ req[h].phase = "load"
    /\ w \in req[h].todo
    /\ kamus_dokumen' = kamus_dokumen \cup {w}
    /\ req' = [req EXCEPT ![h] =
                  IF req[h].todo = {w} THEN IdleReq
                  ELSE [req[h] EXCEPT !.todo = req[h].todo \ {w}]]
    /\ last' = [NoLast EXCEPT !.op = "load", !.words = {w}]
    /\ UNCHANGED <<apiVars, engineVars, scoreVars, pageVars, corrVars, learned_words, learned_words_cache,
                   cache_loaded, tracked>>

\* POST /approve/{word}: LearningService.approve_word.
ApproveWord(word) ==
    /\ LoopFree
    /\ LET word_lower == StrLower(word)
           rowcount == IF word_lower \in DOMAIN learned_words
                          /\ ~learned_words[word_lower].is_approved
                       THEN 1 ELSE 0
       IN  /\ learned_words' =
                  IF rowcount > 0
                  THEN [learned_words EXCEPT ![word_lower].is_approved = TRUE]
                  ELSE learned_words
           /\ learned_words_cache' =
                  IF rowcount > 0 THEN ApprovedWords(learned_words')
                  ELSE learned_words_cache
           /\ cache_loaded' = (cache_loaded \/ rowcount > 0)
           /\ tracked' = IF rowcount > 0 THEN [tracked EXCEPT ![word_lower] = -1]
                         ELSE tracked
           /\ last' = [NoLast EXCEPT !.op = "approve", !.words = {word_lower},
                                     !.ok = (rowcount > 0)]
    /\ UNCHANGED <<apiVars, engineVars, scoreVars, pageVars, corrVars, kamus_dokumen, req>>

\* DELETE /reject/{word}: LearningService.reject_word.
RejectWord(word) ==
    /\ LoopFree
    /\ LET word_lower == StrLower(word)
           rowcount == IF word_lower \in DOMAIN learned_words THEN 1 ELSE 0
       IN  /\ learned_words' =
                  [w \in DOMAIN learned_words \ {word_lower} |-> learned_words[w]]
           /\ tracked' = [tracked EXCEPT ![word_lower] = 0]
           /\ last' = [NoLast EXCEPT !.op = "reject", !.words = {word_lower},
                                     !.ok = (rowcount > 0)]
    /\ UNCHANGED <<apiVars, engineVars, scoreVars, pageVars, corrVars, learned_words_cache, cache_loaded,
                   kamus_dokumen, req>>

\* POST /import: import_learned_words.
ImportLearnedWords(words, mode) ==
    /\ LoopFree
    /\ LET emptied == IF mode = "replace" THEN <<>> ELSE learned_words
       IN  learned_words' = ImportLoop(emptied, words, mode)
    /\ learned_words_cache' = ApprovedWords(learned_words')
    /\ cache_loaded' = TRUE
    /\ tracked' = TrackedAfterImport(words, mode)
    /\ last' = [NoLast EXCEPT
                   !.op = "import", !.mode = mode,
                   !.words = {StrLower(words[i].word) : i \in Processed(words, mode)},
                   !.pending = {StrLower(words[i].word) :
                                   i \in {j \in Processed(words, mode) :
                                             ~words[j].is_approved}}]
    /\ UNCHANGED <<apiVars, engineVars, scoreVars, pageVars, corrVars, kamus_dokumen, req>>

\* POST /import/simple: import_simple_wordlist.
ImportSimpleWordlist(words, auto_approve) ==
    /\ LoopFree
    /\ LET valid_entries ==
               [i \in 1 .. Len(words) |->
                   [word |-> StrLower(words[i]),
                    frequency |-> SIMPLE_IMPORT_FREQUENCY,
                    is_approved |-> auto_approve]]
       IN  /\ learned_words' = ImportLoop(learned_words, valid_entries, "merge")
           /\ tracked' = TrackedAfterImport(valid_entries, "merge")
           /\ last' = [NoLast EXCEPT
                          !.op = "import_simple", !.mode = "merge",
                          !.words = {valid_entries[i].word : i \in 1 .. Len(words)},
                          !.pending = IF auto_approve THEN {}
                                      ELSE {valid_entries[i].word :
                                               i \in 1 .. Len(words)}]
    /\ learned_words_cache' = ApprovedWords(learned_words')
    /\ cache_loaded' = TRUE
    /\ UNCHANGED <<apiVars, engineVars, scoreVars, pageVars, corrVars, kamus_dokumen, req>>

\* The process starts again on the store it left: the module state is built
\* anew and startup_event calls load_learned_words.
Restart ==
    /\ learned_words_cache' = ApprovedWords(learned_words)
    /\ cache_loaded' = TRUE
    /\ kamus_dokumen' = KAMUS_DOKUMEN \cup ApprovedWords(learned_words)
    /\ req' = [h \in Handlers |-> IdleReq]
    /\ last' = NoLast
    /\ UNCHANGED <<apiVars, engineVars, scoreVars, pageVars, corrVars, learned_words, tracked>>

NextVocab ==
    \/ \E h \in Handlers : Receive(h)
    \/ \E h \in Handlers, text \in ExtractTexts : ExtractBegin(h, text)
    \/ \E h \in Handlers : ExtractLearn(h)
    \/ \E h \in Handlers, w \in Words : LoadStep(h, w)
    \/ \E word \in Words : ApproveWord(word)
    \/ \E word \in Words : RejectWord(word)
    \/ \E words \in EntryLists, mode \in ImportModes : ImportLearnedWords(words, mode)
    \/ \E words \in WordLists, auto_approve \in BOOLEAN :
          ImportSimpleWordlist(words, auto_approve)
    \/ Restart

SpecVocab == InitVocab /\ [][NextVocab]_vars

(***************************************************************************)
(* Claims about the vocabulary.                                            *)
(***************************************************************************)
\* C3: a word absent from the store and then met by track_unknown_words
\* alone is stored unapproved with the number of calls as its frequency for
\* the first 4 calls; the 5th call approves it, counts it in the value it
\* returns, and get_learned_words() then contains it.
C3_VocabularyPromotion ==
    \A w \in Words :
        /\ tracked[w] \in 1 .. (FREQUENCY_THRESHOLD - 1) =>
               /\ w \in DOMAIN learned_words
               /\ learned_words[w].frequency = tracked[w]
               /\ ~learned_words[w].is_approved
        /\ tracked[w] = FREQUENCY_THRESHOLD =>
               /\ w \in DOMAIN learned_words
               /\ learned_words[w].frequency = FREQUENCY_THRESHOLD
               /\ learned_words[w].is_approved
               /\ w \in GetLearnedWords(learned_words, learned_words_cache,
                                        cache_loaded)
               /\ (last.op = "track" /\ w \in last.words) =>
                      last.newly_approved >=
                          Cardinality({v \in last.words :
                                          tracked[v] = FREQUENCY_THRESHOLD})

\* C3 witness: the 5th track call of a word has just returned.
C3_Witness ==
    /\ last.op = "track"
    /\ w_gedumg \in last.words
    /\ tracked[w_gedumg] = FREQUENCY_THRESHOLD
    /\ last.newly_approved >= 1

\* C4: whatever track, approve, reject and import operations ran, no stored
\* word has a frequency of 5 or more while it is unapproved.
C4_NoUnapprovedAtThreshold ==
    \A w \in DOMAIN learned_words :
        learned_words[w].frequency >= FREQUENCY_THRESHOLD =>
            learned_words[w].is_approved

\* C5: right after a successful approve_word or reject_word,
\* get_learned_words() is the set of the approved words of the store.
C5_ManualOpsRefreshCache ==
    (last.op \in {"approve", "reject"} /\ last.ok) =>
        GetLearnedWords(learned_words, learned_words_cache, cache_loaded)
            = ApprovedWords(learned_words)

\* C6: after a successful approve_word, which refreshes the cache, the word
\* is a dictionary word for the next pass (not corrected, not unknown); and
\* a pass that starts on a refreshed cache reads a dictionary that holds the
\* approved words and none of the words the store no longer has.
C6_NextPassUsesUpdatedVocabulary ==
    /\ (last.op = "approve" /\ last.ok) =>
           \A w \in last.words :
               /\ w \in kamus_dokumen
               /\ w \notin GetUnknownWords(w, kamus_dokumen)
    /\ \A h \in Handlers :
           (/\ req[h].phase = "correct"
            /\ cache_loaded
            /\ learned_words_cache = ApprovedWords(learned_words)) =>
               \A w \in Words :
                   /\ w \in ApprovedWords(learned_words) => w \in req[h].seen
                   /\ w \notin DOMAIN learned_words => w \notin req[h].seen

\* C7: while a handler reads the dictionary, the dictionary is the set it
\* started to read, and no load of learned words is under way: a reader
\* sees the set before an update or the set after it, never one in between.
C7_AtomicRefresh ==
    \A h \in Handlers :
        req[h].phase = "correct" =>
            /\ kamus_dokumen = req[h].seen
            /\ \A g \in Handlers : req[g].phase # "load"

\* C7 witness: a load of two learned words has added one of them while
\* another request is in flight.
C7_Witness ==
    \E h, g \in Handlers :
        /\ req[h].phase = "load"
        /\ Cardinality(req[h].todo) = 1
        /\ Cardinality(learned_words_cache \ req[h].seen) = 2
        /\ req[g].phase = "read"

\* C8: a track call, or an import in merge or approved_only mode, leaves
\* every approved word of the store approved.
C8_ApprovalMonotonic ==
    [][(/\ last'.op \in {"track", "extract", "import", "import_simple"}
        /\ last'.mode # "replace") =>
           ApprovedWords(learned_words) \subseteq ApprovedWords(learned_words')]_vars

\* C8 witness: an import in merge mode offered an approved word as
\* unapproved.
C8_Witness ==
    /\ last.op = "import"
    /\ last.mode = "merge"
    /\ \E w \in last.pending : w \in ApprovedWords(learned_words)

(***************************************************************************)
(* One correction pass: correct_with_stats on a text, on the dictionary    *)
(* as the module builds it.                                                *)
(***************************************************************************)
\* the words the texts are made of
TextWords == {w_jalan, w_krmat, w_jakrta, w_gedumg, w_wedus, w_camat, w_istri}

t_jalan_krmat_jakrta == w_jalan \o <<" ">> \o w_krmat \o <<" ">> \o w_jakrta

t_jalan_kramat_jakarta == w_jalan \o <<" ">> \o w_kramat \o <<" ">> \o w_jakarta

\* a number glued to a word, and two words two spaces apart
t_11jakrta == <<"1", "1">> \o w_jakrta

t_jalan__krmat == w_jalan \o <<" ", " ">> \o w_krmat

CorrectTexts ==
    {<<>>} \cup TextWords \cup {a \o <<" ">> \o b : a, b \in TextWords}
        \cup {t_jalan_krmat_jakrta, t_11jakrta, t_jalan__krmat}

InitCorrect ==
    /\ IdlePages
    /\ IdleVocab
    /\ fuzz_env \in Envs
    /\ text_in \in CorrectTexts
    /\ koreksi = NoCorrection
    /\ koreksi_ulang = NoCorrection
    /\ IdlePost
    /\ IdleScore
    /\ IdleEngine
    /\ IdleApi

\* corrected_text, dictionary_corrections = correct_with_stats(text_to_process)
Correct ==
    /\ koreksi = NoCorrection
    /\ koreksi' = CorrectWithStats(text_in, kamus_dokumen, fuzz_env)
    /\ UNCHANGED <<apiVars, engineVars, scoreVars, pageVars, vocabVars, fuzz_env, text_in, koreksi_ulang,
                   normalize_spelling, use_dictionary, text_to_process,
                   normalized_text, post>>

\* correct_with_stats called again, on the text it returned
CorrectAgain ==
    /\ koreksi # NoCorrection
    /\ koreksi_ulang = NoCorrection
    /\ koreksi_ulang' = CorrectWithStats(koreksi.text, kamus_dokumen, fuzz_env)
    /\ UNCHANGED <<apiVars, engineVars, scoreVars, pageVars, vocabVars, fuzz_env, text_in, koreksi,
                   normalize_spelling, use_dictionary, text_to_process,
                   normalized_text, post>>

NextCorrect ==
    \/ Correct
    \/ CorrectAgain

SpecCorrect == InitCorrect /\ [][NextCorrect]_vars

\* C10: correct_with_stats("jalan krmat jakrta") returns the text "jalan
\* kramat jakarta" and counts 2 corrections, one for each rewritten word.
C10_ScenarioCountsTwo ==
    (text_in = t_jalan_krmat_jakrta /\ koreksi # NoCorrection) =>
        /\ koreksi.text = t_jalan_kramat_jakarta
        /\ koreksi.corrections = 2

\* C11: a text that is one token whose lowercase form is in the dictionary
\* comes out of correct_with_stats unchanged, with no correction counted.
C11_DictionaryTokensUnchanged ==
    (koreksi # NoCorrection /\ StrLower(text_in) \in kamus_dokumen) =>
        koreksi = [text |-> text_in, corrections |-> 0]

\* C12: a second pass of correct_with_stats over the output of a first pass
\* returns that output unchanged and counts no correction.
C12_CorrectionIdempotent ==
    koreksi_ulang # NoCorrection =>
        koreksi_ulang = [text |-> koreksi.text, corrections |-> 0]

\* the characters of a text that are not letters, in order
NonAlphabetic(text) == SelectSeq(text, LAMBDA c : ~IsAlpha(c))

\* C14: the digits, the punctuation and the whitespace of the text come out
\* of correct_with_stats as they went in: none altered, inserted or removed.
C14_NonAlphabeticUntouched ==
    koreksi # NoCorrection => NonAlphabetic(koreksi.text) = NonAlphabetic(text_in)

(***************************************************************************)
(* The text stages of extract_text: the recognised text goes through the   *)
(* orthography normalization, when asked for, and then through the         *)
(* dictionary correction, when asked for.                                  *)
(***************************************************************************)
\* old-spelling words of the recognised texts
NormalizeWords == {w_djalan, w_jang, w_mendjadi, w_tjhaja, w_tjamat, w_panjang}

\* each word in lower case, capitalised and in upper case
NormalizeTexts ==
    UNION {{w, StrCapitalize(w), StrUpper(w)} : w \in NormalizeWords}

InitPost ==
    /\ IdlePages
    /\ IdleVocab
    /\ fuzz_env \in Envs
    /\ text_in \in NormalizeTexts
    /\ koreksi = NoCorrection
    /\ koreksi_ulang = NoCorrection
    /\ normalize_spelling \in BOOLEAN
    /\ use_dictionary \in BOOLEAN
    /\ text_to_process = text_in
    /\ normalized_text = None
    /\ post = "ocr"
    /\ IdleScore
    /\ IdleEngine
    /\ IdleApi

\* if normalize_spelling and text: ... text_to_process = normalized_text
NormalizeSpelling ==
    /\ post = "ocr"
    /\ post' = "normalized"
    /\ IF normalize_spelling /\ text_in # <<>>
       THEN /\ normalized_text' = NormalizeText(text_in)
            /\ text_to_process' = normalized_text'
       ELSE UNCHANGED <<normalized_text, text_to_process>>
    /\ UNCHANGED <<apiVars, engineVars, scoreVars, pageVars, vocabVars, fuzz_env, text_in, koreksi, koreksi_ulang,
                   normalize_spelling, use_dictionary>>

\* if use_dictionary and text_to_process: ... normalized_text = corrected_text
CorrectDictionary ==
    /\ post = "normalized"
    /\ post' = "corrected"
    /\ IF use_dictionary /\ text_to_process # <<>>
       THEN /\ koreksi' = CorrectWithStats(text_to_process, kamus_dokumen, fuzz_env)
            /\ normalized_text' = koreksi'.text
       ELSE UNCHANGED <<koreksi, normalized_text>>
    /\ UNCHANGED <<apiVars, engineVars, scoreVars, pageVars, vocabVars, fuzz_env, text_in, koreksi_ulang,
                   normalize_spelling, use_dictionary, text_to_process>>

NextPost ==
    \/ NormalizeSpelling
    \/ CorrectDictionary

SpecPost == InitPost /\ [][NextPost]_vars

\* the case style of a token: all upper case, a leading capital, or neither
CaseStyle(token) ==
    IF StrIsUpper(token) THEN "upper"
    ELSE IF IsUpper(token[1]) THEN "capitalised"
    ELSE "lower"

HasStyle(token, style) ==
    CASE style = "upper" -> token = StrUpper(token)
      [] style = "capitalised" -> token = StrCapitalize(token)
      [] OTHER -> token = StrLower(token)

\* C13: a token rewritten by the orthography normalization, whole-word
\* exceptions included, or by the dictionary correction comes out in the case
\* style of the token that went in: upper case for an all upper case token,
\* capitalised for a leading capital, lower case otherwise.
C13_CaseStylePreserved ==
    /\ (post # "ocr" /\ text_to_process # text_in) =>
           HasStyle(text_to_process, CaseStyle(text_in))
    /\ (post = "corrected" /\ koreksi # NoCorrection /\ koreksi.text # text_to_process) =>
           HasStyle(koreksi.text, CaseStyle(text_to_process))

\* the rules applied to the original text only: at each position the first
\* rule whose digraph stands there rewrites it, and the scan goes on after it
RECURSIVE FirstRuleAt(_, _, _)
FirstRuleAt(text, pos, rules) ==
    IF rules = <<>> THEN <<>>
    ELSE IF MatchEnd(text, pos, Head(rules)[1], 1) >= pos THEN Head(rules)
    ELSE FirstRuleAt(text, pos, Tail(rules))

RECURSIVE RewrittenOnce(_, _)
RewrittenOnce(text, pos) ==
    IF pos > Len(text) THEN <<>>
    ELSE LET rule == FirstRuleAt(text, pos, RULES_EJAAN)
         IN  IF rule = <<>>
             THEN <<text[pos]>> \o RewrittenOnce(text, pos + 1)
             ELSE PreserveCase(SubSeq(text, pos, pos + Len(rule[1]) - 1), rule[2])
                  \o RewrittenOnce(text, pos + Len(rule[1]))

\* C15: a word the rules of the normalization rewrite comes out as the rules
\* applied to its original letters give it: no rule rewrites the output of
\* another ('ndj' gives 'nj', 'tjh' gives 'ch').
C15_NoDoubleRewriting ==
    (/\ post # "ocr"
     /\ normalize_spelling
     /\ ~IsKataAsing(text_in)
     /\ ~InJKeY(StrLower(text_in))) =>
        text_to_process = RewrittenOnce(text_in, 1)

\* C16: with both stages asked for, the reported text is the recognised text
\* corrected by the dictionary (phrases, then tokens) and then normalized.
C16_CorrectionBeforeNormalization ==
    (post = "corrected" /\ normalize_spelling /\ use_dictionary) =>
        normalized_text =
            NormalizeText(CorrectWithStats(text_in, kamus_dokumen, fuzz_env).text)

(***************************************************************************)
(* The quality score: scoring_service.py.  The code computes in double     *)
(* precision and truncates the weighted sum, so the model does the same:   *)
(* a double is [m, e], standing for m * 2^e with m a natural number below  *)
(* 2^53 held in limbs, and every operation rounds to the nearest double,   *)
(* ties to even.  A confidence value is given in hundredths (100 stands    *)
(* for 1.0).                                                               *)
(***************************************************************************)
\* the value of a set that holds one value
Only(S) == CHOOSE v \in S : TRUE

\* natural numbers of any size: limbs of 15 bits, the lowest first
Limb == 2 ^ 15

BNorm(a) == SubSeq(a, 1, Max(0, CHOOSE n \in 0 .. Len(a) :
                                    /\ n > 0 => a[n] # 0
                                    /\ \A i \in n + 1 .. Len(a) : a[i] = 0))

RECURSIVE BFromNat(_)
BFromNat(n) == IF n = 0 THEN <<>> ELSE <<n % Limb>> \o BFromNat(n \div Limb)

RECURSIVE BToNat(_)
BToNat(a) == IF a = <<>> THEN 0 ELSE Head(a) + Limb * BToNat(Tail(a))

\* a + b + c
RECURSIVE BAddC(_, _, _)
BAddC(a, b, c) ==
    IF a = <<>> /\ b = <<>> THEN (IF c = 0 THEN <<>> ELSE <<c>>)
    ELSE Only({<<v % Limb>> \o BAddC(ta, tb, v \div Limb) :
               v \in {(IF a = <<>> THEN 0 ELSE Head(a))
                          + (IF b = <<>> THEN 0 ELSE Head(b)) + c},
               ta \in {IF a = <<>> THEN <<>> ELSE Tail(a)},
               tb \in {IF b = <<>> THEN <<>> ELSE Tail(b)}})

BAdd(a, b) == BAddC(a, b, 0)

\* a - b - borrow, for a >= b
RECURSIVE BSubB(_, _, _)
BSubB(a, b, borrow) ==
    IF a = <<>> THEN <<>>
    ELSE Only({<<(IF v < 0 THEN v + Limb ELSE v)>> \o BSubB(ta, tb, IF v < 0 THEN 1 ELSE 0) :
               v \in {Head(a) - (IF b = <<>> THEN 0 ELSE Head(b)) - borrow},
               ta \in {Tail(a)},
               tb \in {IF b = <<>> THEN <<>> ELSE Tail(b)}})

BSub(a, b) == Only({BNorm(d) : d \in {BSubB(a, b, 0)}})

\* -1, 0 or 1 as a is below, equal to or above b
RECURSIVE BCmpFrom(_, _, _)
BCmpFrom(a, b, i) ==
    IF i = 0 THEN 0
    ELSE IF a[i] # b[i] THEN (IF a[i] < b[i] THEN -1 ELSE 1)
    ELSE BCmpFrom(a, b, i - 1)

BCmp(a, b) ==
    IF Len(a) # Len(b) THEN (IF Len(a) < Len(b) THEN -1 ELSE 1)
    ELSE BCmpFrom(a, b, Len(a))

\* a * k + c for a limb k
RECURSIVE BMulSmallC(_, _, _)
BMulSmallC(a, k, c) ==
    IF a = <<>> THEN (IF c = 0 THEN <<>> ELSE <<c>>)
    ELSE Only({<<v % Limb>> \o BMulSmallC(ta, k, v \div Limb) :
               v \in {Head(a) * k + c}, ta \in {Tail(a)}})

BMulSmall(a, k) == Only({BNorm(p) : p \in {BMulSmallC(a, k, 0)}})

RECURSIVE BMulR(_, _)
BMulR(a, b) ==
    IF b = <<>> THEN <<>>
    ELSE Only({BAdd(p, <<0>> \o q) :
               p \in {BMulSmallC(a, Head(b), 0)}, q \in {BMulR(a, Tail(b))}})

BMul(a, b) == Only({BNorm(p) : p \in {BMulR(a, b)}})

\* the limbs 1 .. i of a divided by d, a limb, with r carried in from above
RECURSIVE BDivSmallR(_, _, _, _)
BDivSmallR(a, d, i, r) ==
    IF i = 0 THEN [q |-> <<>>, r |-> r]
    ELSE Only({[q |-> Append(rest.q, cur \div d), r |-> rest.r] :
               rest \in {BDivSmallR(a, d, i - 1, (r * Limb + a[i]) % d)},
               cur \in {r * Limb + a[i]}})

\* quotient and remainder of a by d
BDivSmall(a, d) == Only({[q |-> BNorm(qr.q), r |-> qr.r] : qr \in {BDivSmallR(a, d, Len(a), 0)}})

\* a * 2^n
BShl(a, n) ==
    IF a = <<>> THEN <<>>
    ELSE [i \in 1 .. n \div 15 |-> 0] \o BMulSmallC(a, 2 ^ (n % 15), 0)

\* a \div 2^n
BShr(a, n) ==
    IF Len(a) <= n \div 15 THEN <<>>
    ELSE BDivSmall(SubSeq(a, n \div 15 + 1, Len(a)), 2 ^ (n % 15)).q

\* the number of bits of a
BitLen(a) ==
    IF a = <<>> THEN 0
    ELSE 15 * (Len(a) - 1) + CHOOSE k \in 1 .. 15 : a[Len(a)] < 2 ^ k /\ a[Len(a)] >= 2 ^ (k - 1)

\* n \div 2^s rounded to the nearest, ties to even
BRoundShr(n, s) ==
    IF s <= 0 THEN n
    ELSE Only({IF c > 0 \/ (c = 0 /\ q # <<>> /\ q[1] % 2 = 1) THEN BAdd(q, <<1>>) ELSE q :
               q \in {BShr(n, s)},
               c \in {Only({BCmp(BSub(n, BShl(q, s)), BShl(<<1>>, s - 1)) : q \in {BShr(n, s)}})}})

\* the double nearest to n * 2^e
FRound(n, e) ==
    IF BitLen(n) <= 53 THEN [m |-> n, e |-> e]
    ELSE [m |-> BRoundShr(n, BitLen(n) - 53), e |-> e + BitLen(n) - 53]

\* float(n) for a small natural number
FFromNat(n) == [m |-> BFromNat(n), e |-> 0]

\* x * y
FMul(x, y) == Only({FRound(p, x.e + y.e) : p \in {BMul(x.m, y.m)}})

\* x + y
FAdd(x, y) ==
    Only({FRound(s, Min(x.e, y.e)) :
          s \in {Only({BAdd(a, b) : a \in {BShl(x.m, x.e - Min(x.e, y.e))},
                                    b \in {BShl(y.m, y.e - Min(x.e, y.e))}})}})

\* -1, 0 or 1 as x is below, equal to or above y
FCmp(x, y) ==
    Only({BCmp(a, b) : a \in {BShl(x.m, x.e - Min(x.e, y.e))},
                       b \in {BShl(y.m, y.e - Min(x.e, y.e))}})

\* x - y, for x >= y
FSub(x, y) ==
    Only({FRound(s, Min(x.e, y.e)) :
          s \in {Only({BSub(a, b) : a \in {BShl(x.m, x.e - Min(x.e, y.e))},
                                    b \in {BShl(y.m, y.e - Min(x.e, y.e))}})}})

\* x / d for a natural number d of at most 15 bits: the quotient of
\* x.m * 2^75 by d, a last bit telling whether anything was left, rounded
FDivNat(x, d) ==
    IF x.m = <<>> THEN x
    ELSE Only({Only({FRound(n, x.e - 76) :
                     n \in {BAddC(BShl(qr.q, 1), <<>>, IF qr.r = 0 THEN 0 ELSE 1)}}) :
               qr \in {Only({BDivSmall(n, d) : n \in {BShl(x.m, 75)}})}})

\* int(x)
FTrunc(x) ==
    IF x.e >= 0 THEN BToNat(BShl(x.m, x.e)) ELSE BToNat(BShr(x.m, 0 - x.e))

\* round(x, 1), in tenths
FRoundTenths(x) ==
    Only({IF x.e >= 0 THEN BToNat(BShl(n, x.e)) ELSE BToNat(BRoundShr(n, 0 - x.e)) :
          n \in {BMulSmall(x.m, 10)}})

\* the double of a value given in hundredths: 40 stands for 0.40
FHundredths(c) == FDivNat(FFromNat(c), 100)

\* the weights, in percent
WEIGHT_CONFIDENCE == 40

WEIGHT_DICTIONARY == 30

WEIGHT_CORRECTION == 30

\* _get_quality_label
GetQualityLabel(score) ==
    IF score >= 85 THEN "Excellent"
    ELSE IF score >= 70 THEN "Good"
    ELSE IF score >= 50 THEN "Fair"
    ELSE "Poor"

\* _extract_words: re.findall(r'[a-zA-Z]{3,}', text.lower())
RECURSIVE ExtractWords(_, _)
ExtractWords(text, pos) ==
    IF pos > Len(text) THEN <<>>
    ELSE IF IsAlpha(text[pos])
         THEN LET e == RunEnd(text, pos, IsAlpha)
              IN  (IF e - pos + 1 >= 3 THEN <<StrLower(SubSeq(text, pos, e))>> ELSE <<>>)
                  \o ExtractWords(text, e + 1)
         ELSE ExtractWords(text, pos + 1)

\* _calculate_dictionary_match: matched
MatchedWords(words, kamus) == Cardinality({i \in 1 .. Len(words) : words[i] \in kamus})

\* the percentage of no words at all, if the guard for them were missing
PercentageOfNothing(matched, total) == FFromNat(0)

\* _calculate_dictionary_match: 100.0 for no words, else matched / total * 100
DictionaryMatch(matched, total) ==
    IF total = 0 THEN FFromNat(100)
    ELSE Only({FMul(q, FFromNat(100)) : q \in {FDivNat(FFromNat(matched), total)}})

\* _calculate_correction_rate: 100.0 for no words, else
\* max(0, 100 - corrected_words / total_words * 100)
CorrectionRate(total_words, corrected_words) ==
    IF total_words = 0 THEN FFromNat(100)
    ELSE Only({IF FCmp(p, FFromNat(100)) > 0 THEN FFromNat(0) ELSE FSub(FFromNat(100), p) :
               p \in {Only({FMul(q, FFromNat(100)) :
                            q \in {FDivNat(FFromNat(corrected_words), total_words)}})}})

\* sum(confidence_scores)
RECURSIVE Sum(_)
Sum(values) == IF values = <<>> THEN 0 ELSE Head(values) + Sum(Tail(values))

\* sum(confidence_scores) in doubles, added from the left
RECURSIVE FSum(_, _)
FSum(values, acc) ==
    IF values = <<>> THEN acc
    ELSE Only({FSum(Tail(values), s) : s \in {FAdd(acc, FHundredths(Head(values)))}})

\* _calculate_confidence_score: 75.0 without data; the mean, taken times 100
\* when it is at most 1.0; then min(100.0, max(0.0, avg))
ConfidenceScore(confidence_scores) ==
    IF confidence_scores = <<>> THEN FFromNat(75)
    ELSE Only({Only({IF FCmp(scaled, FFromNat(100)) > 0 THEN FFromNat(100) ELSE scaled :
                     scaled \in {IF FCmp(avg, FFromNat(1)) <= 0
                                 THEN FMul(avg, FFromNat(100)) ELSE avg}}) :
               avg \in {Only({FDivNat(s, Len(confidence_scores)) :
                              s \in {FSum(confidence_scores, FFromNat(0))}})}})

\* int(confidence_score * WEIGHT_CONFIDENCE + dict_match_percentage *
\* WEIGHT_DICTIONARY + correction_score * WEIGHT_CORRECTION)
WeightedSum(confidence_score, dict_match_percentage, correction_score) ==
    Only({FTrunc(FAdd(ab, c)) :
          ab \in {Only({FAdd(a, b) :
                        a \in {FMul(confidence_score, FHundredths(WEIGHT_CONFIDENCE))},
                        b \in {FMul(dict_match_percentage, FHundredths(WEIGHT_DICTIONARY))}})},
          c \in {FMul(correction_score, FHundredths(WEIGHT_CORRECTION))}})

\* calculate_quality_score, once the three components are known: the
\* composite score, clamped, and the result; confidence, dictionary_match
\* and correction_rate are round(x, 1), held in tenths
QualityScoreResult(words, confidence_score, dict_match_percentage, correction_score, corrections, kamus) ==
    Only({[overall |-> Min(100, Max(0, overall)),
           label |-> GetQualityLabel(Min(100, Max(0, overall))),
           confidence |-> FRoundTenths(confidence_score),
           dictionary_match |-> FRoundTenths(dict_match_percentage),
           correction_rate |-> FRoundTenths(correction_score),
           total_words |-> Len(words),
           matched_words |-> MatchedWords(words, kamus),
           corrected_words |-> corrections] :
          overall \in {WeightedSum(confidence_score, dict_match_percentage,
                                   correction_score)}})

\* calculate_quality_score
CalculateQualityScore(text, confidence_scores, corrections, kamus) ==
    Only({Only({QualityScoreResult(words, c, d, k, corrections, kamus) :
                c \in {ConfidenceScore(confidence_scores)},
                d \in {DictionaryMatch(MatchedWords(words, kamus), Len(words))},
                k \in {CorrectionRate(Len(words), corrections)}}) :
          words \in {ExtractWords(text, 1)}})

\* confidence values: 0.0, 0.5 and 1.0, and 2.0, 50.0 and 100.0
ConfidenceValues == {0, 50, 100, 200, 5000, 10000}

\* confidence lists: no data, one region, or a region of 0.5 and another
ConfidenceLists ==
    {<<>>} \cup {<<a>> : a \in ConfidenceValues} \cup {<<50, b>> : b \in ConfidenceValues}

\* the word n times, a blank after each
RECURSIVE Repeated(_, _)
Repeated(word, n) == IF n = 0 THEN <<>> ELSE word \o <<" ">> \o Repeated(word, n - 1)

\* texts of no word, of one, two, three and seven words
ScoreTexts ==
    {<<>>, w_jalan, w_wedus, w_jalan \o <<" ">> \o w_wedus,
     w_jalan \o <<" ">> \o w_wedus \o <<" ">> \o w_wedus,
     w_jalan \o <<" ">> \o w_jalan \o <<" ">> \o w_wedus,
     Repeated(w_jalan, 6) \o w_wedus}

CorrectionCounts == {0, 1, 3, 6}

InitScore ==
    /\ IdlePages
    /\ IdleVocab
    /\ fuzz_env = DefaultEnv
    /\ text_in = <<>>
    /\ koreksi = NoCorrection
    /\ koreksi_ulang = NoCorrection
    /\ IdlePost
    /\ score_text \in ScoreTexts
    /\ dictionary_corrections \in CorrectionCounts
    /\ confidence_first \in ConfidenceLists
    /\ confidence_second \in ConfidenceLists
    /\ quality_first = NoQuality
    /\ quality_second = NoQuality
    /\ IdleEngine
    /\ IdleApi

\* the first call of calculate_quality_score
ScoreFirst ==
    /\ quality_first = NoQuality
    /\ quality_first' = CalculateQualityScore(score_text, confidence_first,
                                              dictionary_corrections, kamus_dokumen)
    /\ UNCHANGED <<apiVars, engineVars, pageVars, vocabVars, corrVars, score_text, dictionary_corrections,
                   confidence_first, confidence_second, quality_second>>

\* the second call, with the same text and corrections count
ScoreSecond ==
    /\ quality_first # NoQuality
    /\ quality_second = NoQuality
    /\ quality_second' = CalculateQualityScore(score_text, confidence_second,
                                               dictionary_corrections, kamus_dokumen)
    /\ UNCHANGED <<apiVars, engineVars, pageVars, vocabVars, corrVars, score_text, dictionary_corrections,
                   confidence_first, confidence_second, quality_first>>

NextScore ==
    \/ ScoreFirst
    \/ ScoreSecond

SpecScore == InitScore /\ [][NextScore]_vars

\* mean(first) <= mean(second)
MeanAtMost(first, second) ==
    /\ first # <<>>
    /\ second # <<>>
    /\ Sum(first) * Len(second) <= Sum(second) * Len(first)

\* C17: of two calls with the same text and corrections count, the one whose
\* confidence values have the greater or equal mean has the greater or equal
\* overall score.
C17_ScoreMonotoneInConfidence ==
    (/\ quality_first # NoQuality
     /\ quality_second # NoQuality
     /\ MeanAtMost(confidence_first, confidence_second)) =>
        quality_first.overall <= quality_second.overall

\* the confidence component as a fraction num / den, in exact arithmetic
ExactConfidence(confidence_scores) ==
    IF confidence_scores = <<>> THEN [num |-> 75, den |-> 1]
    ELSE LET total == Sum(confidence_scores)
             n == Len(confidence_scores)
         IN  IF total <= 100 * n THEN [num |-> Max(0, total), den |-> n]
             ELSE IF total >= 100 * 100 * n THEN [num |-> 100, den |-> 1]
             ELSE [num |-> total, den |-> 100 * n]

\* 0.40 * confidence + 0.30 * dictionary_match + 0.30 * correction_rate,
\* truncated, in exact arithmetic: the components of a text of t words, m
\* of them in the dictionary, are 100 * m / t and max(0, 100 - 100 * k / t)
\* for k corrections, and both 100 for t = 0
ExactOverall(confidence_scores, t, m, k) ==
    LET c == ExactConfidence(confidence_scores)
        den == IF t = 0 THEN 1 ELSE t
        dict_match == IF t = 0 THEN 100 ELSE 100 * m
        correction == IF t = 0 THEN 100 ELSE Max(0, 100 * t - 100 * k)
    IN  (40 * c.num * den + 30 * dict_match * c.den + 30 * correction * c.den)
            \div (100 * c.den * den)

\* what C23 says of one result
ScoreAsStated(quality, confidence_scores) ==
    /\ quality.overall \in 0 .. 100
    /\ quality.confidence \in 0 .. 1000
    /\ quality.dictionary_match \in 0 .. 1000
    /\ quality.correction_rate \in 0 .. 1000
    /\ quality.overall = ExactOverall(confidence_scores, quality.total_words,
                                       quality.matched_words, quality.corrected_words)
    /\ quality.label = "Excellent" <=> quality.overall >= 85
    /\ quality.label = "Good" <=> (quality.overall >= 70 /\ quality.overall < 85)
    /\ quality.label = "Fair" <=> (quality.overall >= 50 /\ quality.overall < 70)
    /\ quality.label = "Poor" <=> quality.overall < 50

\* C23: for any text, confidence list and corrections count the overall
\* score is an integer in 0 .. 100 equal to the truncation of 0.40 *
\* confidence + 0.30 * dictionary_match + 0.30 * correction_rate, every
\* component is in [0, 100], and the label is Excellent from 85, Good from
\* 70, Fair from 50 and Poor below.
C23_OverallIsTruncatedWeightedSum ==
    /\ quality_first # NoQuality => ScoreAsStated(quality_first, confidence_first)
    /\ quality_second # NoQuality => ScoreAsStated(quality_second, confidence_second)

\* ---------------------------------------------------------------------
\* OCRService: init_engine at startup, then baca_gambar on worker threads
\* ---------------------------------------------------------------------

\* What the service finds where it runs.  tesseract_installed: the binary
\* is there.  tesseract_init: what TesseractEngine() does (it looks for the
\* binary but falls back to the bare command name, so it raises only when
\* the lookup itself fails on something other than a missing file).
\* paddle: paddleocr imports and loads, is not installed, or fails to load.
\* imaging: OpenCV with numpy, numpy alone, or neither (OpenCV needs numpy).
Hosts ==
    [tesseract_installed : BOOLEAN,
     tesseract_init : {"ok", "raises"},
     paddle : {"ok", "not_installed", "fails"},
     imaging : {"cv2", "numpy", "none"}]

\* the values of OCR_ENGINE that init_engine tells apart
EngineSettings == {"auto", "tesseract", "paddle"}

\* the images a request carries: one that decodes, one whose data is cut short
Images == {"good", "broken"}

\* the engine argument of baca_gambar
EngineChoices == {"auto", "tesseract", "paddle"}

\* the lock if init_engine left its with block without releasing it
LockKeptAfterWith == "init_engine"

\* the lock once the with block of init_engine is left
LockAfterWith == "free"

\* init_engine: the default engine, "None" when the selection raises
DefaultEngineName(setting, tesseract, paddle) ==
    IF setting = "tesseract" /\ tesseract THEN "tesseract"
    ELSE IF setting = "paddle" /\ paddle THEN "paddle"
    ELSE IF paddle THEN "paddle"
    ELSE IF tesseract THEN "tesseract"
    ELSE "None"

InitService ==
    /\ IdlePages
    /\ IdleVocab
    /\ fuzz_env = DefaultEnv
    /\ IdleCorr
    /\ host \in Hosts
    /\ use_paddle \in EngineSettings
    /\ tesseract_engine = FALSE
    /\ paddle_engine = FALSE
    /\ default_engine_name = "None"
    /\ available_engines = <<>>
    /\ lock = "free"
    /\ startup = "not_started"
    /\ worker = [w \in Workers |-> IdleWorker]
    /\ IdleApi

\* startup_event calls init_engine, which enters its with block
InitEngine ==
    /\ startup = "not_started"
    /\ lock = "free"
    /\ lock' = "init_engine"
    /\ startup' = "tesseract"
    /\ UNCHANGED <<host, use_paddle, tesseract_engine, paddle_engine,
                   default_engine_name, available_engines, worker>>
    /\ UNCHANGED <<pageVars, vocabVars, corrVars, scoreVars, apiVars>>

\* init_engine: try TesseractEngine(), any exception is swallowed
InitTesseract ==
    /\ startup = "tesseract"
    /\ IF host.tesseract_init = "ok"
       THEN /\ tesseract_engine' = TRUE
            /\ available_engines' = Append(available_engines, "tesseract")
       ELSE UNCHANGED <<tesseract_engine, available_engines>>
    /\ startup' = "paddle"
    /\ UNCHANGED <<host, use_paddle, paddle_engine, default_engine_name, lock, worker>>
    /\ UNCHANGED <<pageVars, vocabVars, corrVars, scoreVars, apiVars>>

\* init_engine: try PaddleOCREngine() when the setting is paddle or auto
InitPaddle ==
    /\ startup = "paddle"
    /\ IF use_paddle \in {"paddle", "auto"} /\ host.paddle = "ok"
       THEN /\ paddle_engine' = TRUE
            /\ available_engines' = Append(available_engines, "paddle")
       ELSE UNCHANGED <<paddle_engine, available_engines>>
    /\ startup' = "default"
    /\ UNCHANGED <<host, use_paddle, tesseract_engine, default_engine_name, lock, worker>>
    /\ UNCHANGED <<pageVars, vocabVars, corrVars, scoreVars, apiVars>>

\* init_engine: choose the default engine or raise; the with block is left
\* either way
SetDefaultEngine ==
    /\ startup = "default"
    /\ LET name == DefaultEngineName(use_paddle, tesseract_engine, paddle_engine)
       IN  /\ default_engine_name' = name
           /\ startup' = IF name = "None" THEN "raised" ELSE "returned"
    /\ lock' = LockAfterWith
    /\ UNCHANGED <<host, use_paddle, tesseract_engine, paddle_engine,
                   available_engines, worker>>
    /\ UNCHANGED <<pageVars, vocabVars, corrVars, scoreVars, apiVars>>

\* a worker's position changes, everything else stays
WorkerStep(w, next) ==
    /\ worker' = [worker EXCEPT ![w] = next]
    /\ UNCHANGED <<host, use_paddle, tesseract_engine, paddle_engine,
                   default_engine_name, available_engines, lock, startup>>
    /\ UNCHANGED <<pageVars, vocabVars, corrVars, scoreVars, apiVars>>

\* OCRService.baca_gambar is entered; requests are served once startup is through
BacaGambar(w, image, engine, enhance) ==
    /\ startup = "returned"
    /\ worker[w].pc = "idle"
    /\ WorkerStep(w, [pc |-> IF enhance THEN "preprocess_gambar" ELSE "_get_engine",
                      image |-> image, engine |-> engine, raised_in |-> "none"])

\* preprocess_gambar, the try block: the imports, the conversion of the
\* image, the OpenCV stages (cv_fails: one of them raises)
PreprocessGambar(w, cv_fails) ==
    /\ worker[w].pc = "preprocess_gambar"
    /\ WorkerStep(w, [worker[w] EXCEPT !.pc =
            IF host.imaging # "cv2" \/ worker[w].image = "broken" \/ cv_fails
            THEN "_preprocess_pil_fallback"
            ELSE "_get_engine"])

\* _preprocess_pil_fallback: the import of numpy and the conversion of the
\* image are outside any try; only the threshold is guarded
PreprocessPilFallback(w) ==
    /\ worker[w].pc = "_preprocess_pil_fallback"
    /\ WorkerStep(w,
            IF host.imaging = "none" \/ worker[w].image = "broken"
            THEN [worker[w] EXCEPT !.pc = "raised", !.raised_in = "preprocess_gambar"]
            ELSE [worker[w] EXCEPT !.pc = "_get_engine"])

\* the engine object a name stands for is set
EngineIsSet(name) ==
    \/ name = "tesseract" /\ tesseract_engine
    \/ name = "paddle" /\ paddle_engine

\* _get_engine: the default engine, or the named one if it is set
GetEngine(w) ==
    /\ worker[w].pc = "_get_engine"
    /\ LET name == IF worker[w].engine = "auto" THEN default_engine_name
                   ELSE worker[w].engine
       IN  WorkerStep(w,
               IF EngineIsSet(name)
               THEN [worker[w] EXCEPT !.pc = "baca_gambar", !.engine = name]
               ELSE [worker[w] EXCEPT !.pc = "raised", !.raised_in = "_get_engine"])

\* the engine's baca_gambar: it returns the text, or raises (always so
\* without the Tesseract binary or on an image that does not decode)
Recognize(w, raises) ==
    /\ worker[w].pc = "baca_gambar"
    /\ \/ raises
       \/ /\ worker[w].image = "good"
          /\ worker[w].engine = "tesseract" => host.tesseract_installed
    /\ WorkerStep(w,
            IF raises
            THEN [worker[w] EXCEPT !.pc = "raised", !.raised_in = "baca_gambar"]
            ELSE [worker[w] EXCEPT !.pc = "returned"])

\* the call is over: the worker takes the next page
NextPage(w) ==
    /\ worker[w].pc \in {"returned", "raised"}
    /\ WorkerStep(w, IdleWorker)

NextService ==
    \/ InitEngine
    \/ InitTesseract
    \/ InitPaddle
    \/ SetDefaultEngine
    \/ \E w \in Workers, image \in Images, engine \in EngineChoices, enhance \in BOOLEAN :
            BacaGambar(w, image, engine, enhance)
    \/ \E w \in Workers, cv_fails \in BOOLEAN : PreprocessGambar(w, cv_fails)
    \/ \E w \in Workers : PreprocessPilFallback(w)
    \/ \E w \in Workers : GetEngine(w)
    \/ \E w \in Workers, raises \in BOOLEAN : Recognize(w, raises)
    \/ \E w \in Workers : NextPage(w)

SpecService == InitService /\ [][NextService]_vars

\* C18: preprocess_gambar with enhance = true never raises, whatever the
\* image and whatever image-processing libraries the host has: no call of
\* baca_gambar ends with an exception raised inside preprocess_gambar.
C18_PreprocessNeverRaises ==
    \A w \in Workers : worker[w].raised_in # "preprocess_gambar"

\* an engine variant is available on the host
TesseractAvailable == host.tesseract_installed /\ host.tesseract_init = "ok"

PaddleAvailable == host.paddle = "ok"

\* C19: once init_engine is over, it has raised if and only if neither
\* engine variant is available on the host; when it returned, the default
\* engine is one that initialised and its name is in get_available_engines().
C19_InitEngineIffAvailable ==
    startup \in {"returned", "raised"} =>
        /\ startup = "raised" <=> ~(TesseractAvailable \/ PaddleAvailable)
        /\ startup = "returned" =>
               /\ EngineIsSet(default_engine_name)
               /\ \E i \in 1 .. Len(available_engines) :
                      available_engines[i] = default_engine_name

\* a worker is inside preprocess_gambar or inside an engine's baca_gambar
InSlowCall(w) ==
    worker[w].pc \in {"preprocess_gambar", "_preprocess_pil_fallback", "baca_gambar"}

\* C20: whenever a thread is inside preprocess_gambar or inside an engine's
\* baca_gambar the service lock is free; the lock is held only by
\* init_engine, while every worker is idle.
C20_NoLockAcrossSlowCalls ==
    /\ \A w \in Workers : InSlowCall(w) => lock = "free"
    /\ lock # "free" =>
           /\ lock = "init_engine"
           /\ startup \in {"tesseract", "paddle", "default"}
           /\ \A w \in Workers : worker[w] = IdleWorker

\* C20 witness: after init_engine held and released the lock, one thread is
\* recognising while another is preprocessing.
C20_Witness ==
    /\ startup = "returned"
    /\ available_engines # <<>>
    /\ worker["w1"].pc = "baca_gambar"
    /\ worker["w2"].pc = "_preprocess_pil_fallback"

\* ---------------------------------------------------------------------
\* correct_word on one token: the fuzzy cutoff
\* ---------------------------------------------------------------------

w_hamengkubuwono ==
    <<"h", "a", "m", "e", "n", "g", "k", "u", "b", "u", "w", "o", "n", "o">>

\* the first 13 letters of hamengkubuwono followed by n letters z: against
\* hamengkubuwono the ratio is 2600 / (27 + n), that is 65 for n = 13
Misread(n) == SubSeq(w_hamengkubuwono, 1, 13) \o [i \in 1 .. n |-> "z"]

\* KAMUS_DOKUMEN with one of its long words
KamusWord == KAMUS_DOKUMEN \cup {w_hamengkubuwono}

WordTokens ==
    {w_gedumg, w_jaksra, w_wedus, w_jalan, w_camat, w_jakrta, w_ja, t_11jakrta,
     Misread(12), Misread(13), Misread(14)}

WordInputs ==
    WordTokens \cup {StrCapitalize(w) : w \in WordTokens} \cup {StrUpper(w) : w \in WordTokens}

InitWord ==
    /\ IdlePages
    /\ learned_words = <<>>
    /\ learned_words_cache = {}
    /\ cache_loaded = TRUE
    /\ kamus_dokumen = KamusWord
    /\ req = [h \in Handlers |-> IdleReq]
    /\ last = NoLast
    /\ tracked = [w \in Words |-> 0]
    /\ fuzz_env \in Envs
    /\ text_in \in WordInputs
    /\ koreksi = NoCorrection
    /\ koreksi_ulang = NoCorrection
    /\ IdlePost
    /\ IdleScore
    /\ IdleEngine
    /\ IdleApi

\* corrected = correct_word(token), counted when it differs from the token
CorrectWordCall ==
    /\ koreksi = NoCorrection
    /\ LET corrected == CorrectWord(text_in, kamus_dokumen, fuzz_env)
       IN  koreksi' = [text |-> corrected,
                       corrections |-> IF corrected # text_in THEN 1 ELSE 0]
    /\ UNCHANGED <<apiVars, engineVars, scoreVars, pageVars, vocabVars, fuzz_env, text_in, koreksi_ulang,
                   normalize_spelling, use_dictionary, text_to_process,
                   normalized_text, post>>

\* the result is looked up once more, as a later pass over the text does
CorrectWordAgain ==
    /\ koreksi # NoCorrection
    /\ koreksi_ulang = NoCorrection
    /\ LET corrected == CorrectWord(koreksi.text, kamus_dokumen, fuzz_env)
       IN  koreksi_ulang' = [text |-> corrected,
                             corrections |-> IF corrected # koreksi.text THEN 1 ELSE 0]
    /\ UNCHANGED <<apiVars, engineVars, scoreVars, pageVars, vocabVars, fuzz_env, text_in, koreksi,
                   normalize_spelling, use_dictionary, text_to_process,
                   normalized_text, post>>

NextWord ==
    \/ CorrectWordCall
    \/ CorrectWordAgain

SpecWord == InitWord /\ [][NextWord]_vars

\* the token of the call is valid, not a dictionary word and not a phrase key
FuzzyCase ==
    /\ koreksi # NoCorrection
    /\ Len(text_in) >= 3
    /\ \A i \in 1 .. Len(text_in) : IsAlpha(text_in[i])
    /\ StrLower(text_in) \notin kamus_dokumen
    /\ ~InPhrase(StrLower(text_in))

\* the similarity of the token and a dictionary word is at least 65 of 100
Reaches65(c) ==
    200 * LCS(StrLower(text_in), c) >= 65 * (Len(text_in) + Len(c))

\* no dictionary word is more similar to the token than c
BestOfKamus(c) ==
    \A o \in kamus_dokumen :
        LCS(StrLower(text_in), c) * (Len(text_in) + Len(o))
            >= LCS(StrLower(text_in), o) * (Len(text_in) + Len(c))

\* what the claim says of the token of the call
ReplacedIffReaches65 ==
    /\ koreksi.text # text_in <=> \E c \in kamus_dokumen : Reaches65(c)
    /\ koreksi.text # text_in =>
           /\ StrLower(koreksi.text) \in kamus_dokumen
           /\ Reaches65(StrLower(koreksi.text))
           /\ BestOfKamus(StrLower(koreksi.text))

InputTexts == {<<>>, <<" ">>, w_jalan, w_gedumg}

InitInput ==
    /\ IdlePages
    /\ IdleVocab
    /\ fuzz_env \in Envs
    /\ text_in \in InputTexts
    /\ koreksi = NoCorrection
    /\ koreksi_ulang = NoCorrection
    /\ IdlePost
    /\ score_text = text_in
    /\ dictionary_corrections \in {0, 3}
    /\ confidence_first \in {<<>>, <<50>>, <<10000>>}
    /\ confidence_second \in {<<>>, <<100>>}
    /\ quality_first = NoQuality
    /\ quality_second = NoQuality
    /\ IdleEngine
    /\ IdleApi

NextInput ==
    \/ Correct
    \/ CorrectAgain
    \/ ScoreFirst
    \/ ScoreSecond

SpecInput == InitInput /\ [][NextInput]_vars

\* what C22 says of the score of an empty text
EmptyScore(quality) ==
    /\ quality.total_words = 0
    /\ quality.dictionary_match = 1000
    /\ quality.correction_rate = 1000
    /\ quality.overall \in 0 .. 100
    /\ quality.label \in {"Excellent", "Good", "Fair", "Poor"}

\* C22: correct_with_stats returns an empty text as it is with 0
\* corrections, and calculate_quality_score of an empty text, with or
\* without confidence values, gives a result with total_words = 0 whose
\* dictionary-match and correction-rate components are both 100.
C22_EmptyInputIsNoOp ==
    text_in = <<>> =>
        /\ koreksi # NoCorrection => koreksi = [text |-> <<>>, corrections |-> 0]
        /\ koreksi_ulang # NoCorrection => koreksi_ulang = [text |-> <<>>, corrections |-> 0]
        /\ quality_first # NoQuality => EmptyScore(quality_first)
        /\ quality_second # NoQuality => EmptyScore(quality_second)

\* C22 witness: the empty text has been corrected and has been scored, once
\* without confidence values and once with them, some corrections claimed.
C22_Witness ==
    /\ text_in = <<>>
    /\ koreksi # NoCorrection
    /\ dictionary_corrections > 0
    /\ confidence_first # <<>>
    /\ confidence_second = <<>>
    /\ quality_first # NoQuality
    /\ quality_second # NoQuality

(***************************************************************************)
(* POST /extract from the arrival of the request to its response, and the  *)
(* record catat_request writes.  The file is an image of one page (the     *)
(* pages of a PDF are the subject of SpecPages); what the recognition and  *)
(* the learning meet is an input of the request.                           *)
(***************************************************************************)
\* the file sent: its extension and its size against MAX_FILE_SIZE
Files == {"bad_extension", "empty", "too_large", "ok"}

\* where the pipeline of the request raises: Image.open, preprocess_gambar,
\* OCRService._get_engine or the engine's baca_gambar
Failures == {"open", "preprocess", "get_engine", "recognize"}

Uploads ==
    {u \in [file : Files, enhance : BOOLEAN, fails_in : Failures \cup {"none"},
            learning_raises : BOOLEAN, text : {"", "satu"}] :
        /\ u.file # "ok" => u = [PlainUpload EXCEPT !.file = u.file]
        /\ u.fails_in = "preprocess" => u.enhance
        /\ u.fails_in # "none" => ~u.learning_raises /\ u.text = ""}

\* the message of the exception each failure raises
PesanOf(fails_in) ==
    IF fails_in \in {"get_engine", "recognize"} THEN "tesseract error" ELSE "error"

\* the code between two awaits of a handler runs alone on the event loop:
\* extract_text awaits file.read() only
InFlight(h) == handler[h] \notin {"idle", "read", "done", "failed"}

LoopIsFree == \A g \in Requests : ~InFlight(g)

\* A catat_request whose INSERT is never committed.
HistoryUnwritten(history, filename, pages, success, error_code) == history

\* catat_request: one INSERT into ocr_history, committed
CatatRequest(history, filename, pages, success, error_code) ==
    Append(history, [filename |-> filename, pages |-> pages, success |-> success,
                     error_code |-> error_code])

\* the checks before the try block: catat_request, then HTTPException(400)
Reject(h, error_code) ==
    /\ ocr_history' = CatatRequest(ocr_history, h, 0, FALSE, error_code)
    /\ http' = [http EXCEPT ![h] = [status |-> 400, success |-> FALSE, pages |-> 0,
                                    error_code |-> error_code]]
    /\ handler' = [handler EXCEPT ![h] = "failed"]

\* the except branch: catat_request, then OCRResponse(success=False)
ExceptBranch(h, pesan_error) ==
    /\ ocr_history' = CatatRequest(ocr_history, h, 0, FALSE, KodeError(pesan_error))
    /\ http' = [http EXCEPT ![h] = [status |-> 200, success |-> FALSE, pages |-> 0,
                                    error_code |-> KodeError(pesan_error)]]
    /\ handler' = [handler EXCEPT ![h] = "failed"]

\* a step of the try block that either raises into the except branch or
\* goes on to the next position
TryStep(h, failure, to) ==
    /\ IF upload[h].fails_in = failure
       THEN ExceptBranch(h, PesanOf(failure))
       ELSE /\ handler' = [handler EXCEPT ![h] = to]
            /\ UNCHANGED <<ocr_history, http>>
    /\ UNCHANGED <<pageVars, vocabVars, corrVars, scoreVars, engineVars, trackVars, keyVars, rateVars,
                   upload>>

InitExtract ==
    /\ IdlePages
    /\ IdleVocab
    /\ fuzz_env = DefaultEnv
    /\ IdleCorr
    /\ IdleEngine
    /\ IdleTrack
    /\ IdleKeys
    /\ IdleRate
    /\ upload \in [Requests -> Uploads]
    /\ handler = [h \in Requests |-> "idle"]
    /\ ocr_history = <<>>
    /\ http = [h \in Requests |-> NoHttp]

\* extract_text up to "await file.read()": the extension check
ExtractText(h) ==
    /\ LoopIsFree
    /\ handler[h] = "idle"
    /\ IF upload[h].file = "bad_extension"
       THEN Reject(h, "FILE_TYPE_NOT_ALLOWED")
       ELSE /\ handler' = [handler EXCEPT ![h] = "read"]
            /\ UNCHANGED <<ocr_history, http>>
    /\ UNCHANGED <<pageVars, vocabVars, corrVars, scoreVars, engineVars, trackVars, keyVars, rateVars,
                   upload>>

\* the handler resumes with the bytes: the checks of the size
CheckSize(h) ==
    /\ LoopIsFree
    /\ handler[h] = "read"
    /\ IF upload[h].file = "empty" THEN Reject(h, "FILE_EMPTY")
       ELSE IF upload[h].file = "too_large" THEN Reject(h, "FILE_TOO_LARGE")
       ELSE /\ handler' = [handler EXCEPT ![h] = "proses_file"]
            /\ UNCHANGED <<ocr_history, http>>
    /\ UNCHANGED <<pageVars, vocabVars, corrVars, scoreVars, engineVars, trackVars, keyVars, rateVars,
                   upload>>

\* proses_file: gambar = Image.open(io.BytesIO(data_file))
OpenImage(h) ==
    /\ handler[h] = "proses_file"
    /\ TryStep(h, "open", "baca_gambar")

\* OCRService.baca_gambar: "if enhance: gambar = preprocess_gambar(...)"
EnhanceImage(h) ==
    /\ handler[h] = "baca_gambar"
    /\ TryStep(h, "preprocess", "get_engine")

\* OCRService.baca_gambar: ocr_engine = self._get_engine(engine), and the
\* call of the engine's baca_gambar
CallEngine(h) ==
    /\ handler[h] = "get_engine"
    /\ TryStep(h, "get_engine", "engine")

\* the engine's baca_gambar returns or raises; proses_file returns
EngineReturns(h) ==
    /\ handler[h] = "engine"
    /\ TryStep(h, "recognize", "correct")

\* normalize_with_comparison and correct_with_stats, as the flags ask
PostProcess(h) ==
    /\ handler[h] = "correct"
    /\ TryStep(h, "never", "score")

\* calculate_quality_score and QualityScore(...)
ScoreText(h) ==
    /\ handler[h] = "score"
    /\ TryStep(h, "never", "learn")

\* the auto-learn: its own try block keeps an error of the learning store
\* from the request
AutoLearn(h) ==
    /\ handler[h] = "learn"
    /\ handler' = [handler EXCEPT ![h] = IF upload[h].learning_raises
                                         THEN "record"    \* except Exception: print
                                         ELSE "record"]
    /\ UNCHANGED <<pageVars, vocabVars, corrVars, scoreVars, engineVars, trackVars, keyVars, rateVars,
                   upload,
                   ocr_history, http>>

\* catat_request(success=True) and the OCRResponse of the success
RecordSuccess(h) ==
    /\ handler[h] = "record"
    /\ ocr_history' = CatatRequest(ocr_history, h, 1, TRUE, "NONE")
    /\ http' = [http EXCEPT ![h] = [status |-> 200, success |-> TRUE, pages |-> 1,
                                    error_code |-> "NONE"]]
    /\ handler' = [handler EXCEPT ![h] = "done"]
    /\ UNCHANGED <<pageVars, vocabVars, corrVars, scoreVars, engineVars, trackVars, keyVars, rateVars,
                   upload>>

\* the steps of a handler once its file is read
Proceed(h) ==
    \/ OpenImage(h)
    \/ EnhanceImage(h)
    \/ CallEngine(h)
    \/ EngineReturns(h)
    \/ PostProcess(h)
    \/ ScoreText(h)
    \/ AutoLearn(h)
    \/ RecordSuccess(h)

NextExtract ==
    \/ \E h \in Requests : ExtractText(h)
    \/ \E h \in Requests : CheckSize(h)
    \/ \E h \in Requests : Proceed(h)

\* a request that has arrived is served: the event loop runs the handler
\* it has resumed, and resumes one that waits once the loop is free
SpecExtract ==
    /\ InitExtract
    /\ [][NextExtract]_vars
    /\ WF_vars(\E h \in Requests : CheckSize(h) \/ Proceed(h))

\* the state of the document's state machine at each position of the handler
Stage(position) ==
    CASE position = "idle" -> "None"
      [] position \in {"read", "proses_file", "baca_gambar"} -> "Received"
      [] position = "get_engine" -> "Preprocessed"
      [] position = "engine" -> "Recognizing"
      [] position \in {"correct", "score"} -> "Correcting"
      [] position \in {"learn", "record"} -> "Scored"
      [] position = "done" -> "Done"
      [] position = "failed" -> "Failed"

StageOrder == <<"None", "Received", "Preprocessed", "Recognizing", "Correcting",
                "Scored", "Done">>

StageIndex(stage) == CHOOSE i \in 1 .. Len(StageOrder) : StageOrder[i] = stage

\* the records of the history that name the file of request h
RecordsOf(h) == {i \in 1 .. Len(ocr_history) : ocr_history[i].filename = h}

Ended(h) == handler[h] \in {"done", "failed"}

\* one record for an ended request and none before; its flag is the
\* success of the response
OneRecordAsAnswered ==
    \A h \in Requests :
        /\ Ended(h) <=> http[h].status # 0
        /\ Cardinality(RecordsOf(h)) = IF Ended(h) THEN 1 ELSE 0
        /\ \A i \in RecordsOf(h) :
              /\ ocr_history[i].success = http[h].success
              /\ ocr_history[i].success = (handler[h] = "done")

\* a step keeps the stage, moves it one forward or ends in Failed; nothing
\* leaves Done or Failed, and a record or response once written stays
StageStep ==
    \A h \in Requests :
        LET old == Stage(handler[h])
            new == Stage(handler'[h])
        IN  /\ old \in {"Done", "Failed"} =>
                  new = old /\ http'[h] = http[h]
                  /\ \A i \in RecordsOf(h) : ocr_history'[i] = ocr_history[i]
            /\ old \notin {"Done", "Failed"} =>
                  \/ new = old
                  \/ new = "Failed" /\ old # "None"
                  \/ new = "Failed" /\ upload[h].file = "bad_extension"
                  \/ new # "Failed" /\ StageIndex(new) = StageIndex(old) + 1

ParallelBranch == doc.is_pdf /\ Parallel /\ doc.n > 1

\* the calls of baca_gambar that have returned or raised, for page idx
Recognitions(idx) == Cardinality({k \in 1 .. Len(finished) : finished[k] = idx})

\* the pages finish in index order
InIndexOrder == \A k \in 1 .. Len(finished) : finished[k] = k - 1

ProsesFileEnded == pc \in {"returned", "raised", "responded"}

\* no page task is queued or running
NoTaskLeft == \A i \in Pages : task[i] \notin {"queued", "running"}

\* what the page tasks of the document write
TasksAtRest == UNCHANGED <<task, finished, hasil_per_halaman, confidences_per_halaman>>

\* C28: once proses_file has returned or raised for a document processed
\* in parallel no page task of the document is running or pending, so a
\* page's error reaches the caller only after every submitted task has
\* finished; and from then on no task state or page result changes
C28_NoTaskOutlivesDocument ==
    /\ [](ParallelBranch /\ ProsesFileEnded => NoTaskLeft)
    /\ [][ParallelBranch /\ ProsesFileEnded => TasksAtRest]_vars

\* a PDF of three pages in the parallel branch: the first task to finish
\* raised and its error was collected alone, the two other tasks were run
\* to their end, and only then proses_file raised
C28_Witness ==
    /\ ParallelBranch
    /\ doc.n = 3
    /\ pc = "raised"
    /\ Len(finished) = 3
    /\ outcome[finished[1]].raises
    /\ yielded = {finished[1]}
    /\ \A i \in Pages : task[i] \in {"done", "failed"}

(***************************************************************************)
(* track_unknown_words called by several worker processes at once.  Each   *)
(* call has its own connection to the one SQLite file (rollback journal):  *)
(* a SELECT reads what is committed, the first UPDATE or INSERT of a call  *)
(* begins its transaction and waits for the write lock, and commit writes  *)
(* the transaction to the file.                                            *)
(***************************************************************************)
\* the table before the calls
TrackSeeds ==
    {<<>>} \cup {DictPut(<<>>, w_wedus, [frequency |-> f, is_approved |-> FALSE]) :
                    f \in {1, 3, 4}}

\* unknown_words of a call
TrackLists == {<<w_wedus>>, <<w_gedumg, w_wedus>>}

\* what a connection reads: its own uncommitted writes over the file
Visible(p) ==
    [w \in (DOMAIN learned_words) \cup (DOMAIN conn[p].writes) |->
        IF w \in DOMAIN conn[p].writes THEN conn[p].writes[w] ELSE learned_words[w]]

InitTrack ==
    /\ IdlePages
    /\ learned_words \in TrackSeeds
    /\ learned_words_cache = {}
    /\ cache_loaded = TRUE
    /\ kamus_dokumen = KAMUS_DOKUMEN
    /\ req = [h \in Handlers |-> IdleReq]
    /\ last = NoLast
    /\ tracked = [w \in Words |-> 0]
    /\ fuzz_env = DefaultEnv
    /\ IdleCorr
    /\ IdleEngine
    /\ IdleExtract
    /\ IdleKeys
    /\ IdleRate
    /\ conn = [p \in Processes |-> IdleConn]
    /\ write_lock = "free"
    /\ first_store = learned_words

\* track_unknown_words up to the loop: "with db._konek() as conn"
TrackUnknownWords(p, unknown_words) ==
    /\ conn[p].pc = "idle"
    /\ conn' = [conn EXCEPT ![p] = [IdleConn EXCEPT !.pc = "select",
                                                      !.todo = unknown_words]]
    /\ UNCHANGED <<pageVars, vocabVars, corrVars, scoreVars, engineVars, extractVars, keyVars,
                   rateVars,
                   write_lock, first_store>>

\* "SELECT id, frequency, is_approved FROM learned_words WHERE word = ?"
\* and fetchone()
SelectWord(p) ==
    /\ conn[p].pc = "select"
    /\ LET word_lower == StrLower(Head(conn[p].todo))
           found == word_lower \in DOMAIN Visible(p)
       IN  conn' = [conn EXCEPT ![p].pc = "write",
                                ![p].found = found,
                                ![p].row = IF found THEN Visible(p)[word_lower]
                                           ELSE NoRow]
    /\ UNCHANGED <<pageVars, vocabVars, corrVars, scoreVars, engineVars, extractVars, keyVars,
                   rateVars,
                   write_lock, first_store>>

\* the UPDATE or the INSERT of the word, once the write lock is had; an
\* INSERT of a word another process has committed since the SELECT fails on
\* UNIQUE(word), and the exception closes the connection without commit
WriteWord(p) ==
    /\ conn[p].pc = "write"
    /\ write_lock \in {"free", p}
    /\ LET word_lower == StrLower(Head(conn[p].todo))
           rest == Tail(conn[p].todo)
           new_freq == conn[p].row.frequency + 1
           is_approved == conn[p].row.is_approved
           approve == AutoApprove(new_freq, is_approved)
       IN  IF ~conn[p].found /\ word_lower \in DOMAIN Visible(p)
           THEN /\ conn' = [conn EXCEPT ![p].pc = "raised", ![p].writes = <<>>]
                /\ write_lock' = "free"
           ELSE /\ conn' = [conn EXCEPT
                       ![p].pc = IF rest = <<>> THEN "commit" ELSE "select",
                       ![p].todo = rest,
                       ![p].writes =
                           DictPut(conn[p].writes, word_lower,
                               IF conn[p].found
                               THEN [frequency |-> new_freq,
                                     is_approved |-> is_approved \/ approve]
                               ELSE [frequency |-> 1, is_approved |-> FALSE]),
                       ![p].newly_approved =
                           IF conn[p].found /\ approve THEN conn[p].newly_approved + 1
                           ELSE conn[p].newly_approved]
                /\ write_lock' = p
    /\ UNCHANGED <<pageVars, vocabVars, corrVars, scoreVars, engineVars, extractVars, keyVars,
                   rateVars,
                   first_store>>

\* conn.commit(), the refresh of the process's cache when a word was
\* approved, and the return of newly_approved
CommitWords(p) ==
    /\ conn[p].pc = "commit"
    /\ learned_words' = Visible(p)
    /\ write_lock' = "free"
    /\ conn' = [conn EXCEPT ![p].pc = "returned", ![p].writes = <<>>,
                            ![p].cache = IF conn[p].newly_approved > 0
                                         THEN ApprovedWords(learned_words')
                                         ELSE conn[p].cache]
    /\ UNCHANGED <<pageVars, corrVars, scoreVars, engineVars, extractVars, keyVars,
                   rateVars,
                   learned_words_cache, cache_loaded, kamus_dokumen, req, last, tracked,
                   first_store>>

NextTrack ==
    \/ \E p \in Processes, unknown_words \in TrackLists : TrackUnknownWords(p, unknown_words)
    \/ \E p \in Processes : SelectWord(p)
    \/ \E p \in Processes : WriteWord(p)
    \/ \E p \in Processes : CommitWords(p)

SpecTrack == InitTrack /\ [][NextTrack]_vars

\* every process has made its call and the call has returned or raised
CallsEnded == \A p \in Processes : conn[p].pc \in {"returned", "raised"}

\* the frequency the table holds for a word, 0 for a word it lacks
FrequencyIn(store, word) == DictGet(store, word, NoRow).frequency

ApprovedIn(store, word) == DictGet(store, word, NoRow).is_approved

\* C26: when the calls of the processes, each with the word wedus among
\* its words, have ended, every call has returned without an error, the
\* frequency of the word has grown by the number of calls, and the calls
\* together have counted as newly approved exactly the words that went from
\* unapproved to approved
C26_TrackIncrementsAtomic ==
    CallsEnded =>
        /\ \A p \in Processes : conn[p].pc = "returned"
        /\ FrequencyIn(learned_words, w_wedus) =
               FrequencyIn(first_store, w_wedus) + Cardinality(Processes)
        /\ Sum([i \in 1 .. 3 |-> conn[<<"p1", "p2", "p3">>[i]].newly_approved]) =
               Cardinality({w \in Words : ApprovedIn(learned_words, w)
                                          /\ ~ApprovedIn(first_store, w)})

(***************************************************************************)
(* The auto-learn of one document: get_unknown_words on its text, then     *)
(* track_unknown_words on the list, in one process.                        *)
(***************************************************************************)
\* re.findall(r'[a-zA-Z]{3,}', text): the runs of letters of length 3 or
\* more, in the order of the text
RECURSIVE FindAllWords(_, _)
FindAllWords(text, pos) ==
    IF pos > Len(text) THEN <<>>
    ELSE IF IsAlpha(text[pos])
         THEN LET e == RunEnd(text, pos, IsAlpha)
              IN  (IF e - pos + 1 >= 3 THEN <<SubSeq(text, pos, e)>> ELSE <<>>)
                  \o FindAllWords(text, e + 1)
         ELSE FindAllWords(text, pos + 1)

\* the loop of get_unknown_words: the words the dictionary lacks, as met
RECURSIVE UnknownAsMet(_, _)
UnknownAsMet(words, kamus) ==
    IF words = <<>> THEN <<>>
    ELSE (IF StrLower(Head(words)) \notin kamus THEN <<StrLower(Head(words))>> ELSE <<>>)
         \o UnknownAsMet(Tail(words), kamus)

\* A list that keeps every occurrence.
EveryOccurrence(unknown) == unknown

\* list(set(unknown)): every word once, in some order
RECURSIVE ListOfSet(_)
ListOfSet(unknown) ==
    IF unknown = <<>> THEN <<>>
    ELSE LET rest == ListOfSet(Tail(unknown))
         IN  IF \E i \in 1 .. Len(rest) : rest[i] = Head(unknown) THEN rest
             ELSE <<Head(unknown)>> \o rest

\* get_unknown_words, as the list it returns
UnknownWordList(text, kamus) ==
    IF text = <<>> THEN <<>>
    ELSE ListOfSet(UnknownAsMet(FindAllWords(StrLower(text), 1), kamus))

\* track_unknown_words: "for word in unknown_words", one SELECT and one
\* UPDATE or INSERT for each element of the list
RECURSIVE TrackList(_, _, _)
TrackList(store, unknown_words, newly_approved) ==
    IF unknown_words = <<>> THEN [store |-> store, newly_approved |-> newly_approved]
    ELSE LET r == TrackLoop(store, {Head(unknown_words)}, newly_approved)
         IN  TrackList(r.store, Tail(unknown_words), r.newly_approved)

\* the texts of the documents
LearnTexts ==
    {<<>>,
     w_wedus \o <<" ">> \o w_wedus \o <<" ">> \o w_gedumg,
     w_jalan \o <<" ">> \o w_wedus,
     StrCapitalize(w_wedus) \o <<",">> \o StrUpper(w_wedus),
     <<"1", "1">> \o w_wedus \o <<" ">> \o w_ja \o <<" ">> \o w_gedumg,
     w_gedumg \o <<"2">> \o w_gedumg}

\* the table when the process starts
LearnSeeds ==
    {<<>>,
     DictPut(<<>>, w_wedus, [frequency |-> 4, is_approved |-> FALSE]),
     DictPut(DictPut(<<>>, w_wedus, [frequency |-> 4, is_approved |-> FALSE]),
             w_gedumg, [frequency |-> 4, is_approved |-> FALSE]),
     DictPut(DictPut(<<>>, w_wedus, [frequency |-> 2, is_approved |-> TRUE]),
             w_gedumg, [frequency |-> 1, is_approved |-> FALSE])}

InitLearn ==
    /\ IdlePages
    /\ learned_words \in LearnSeeds
    /\ learned_words_cache = ApprovedWords(learned_words)
    /\ cache_loaded = TRUE
    /\ kamus_dokumen \in {KAMUS_DOKUMEN, KAMUS_DOKUMEN \cup ApprovedWords(learned_words)}
    /\ req = [h \in Handlers |-> IdleReq]
    /\ last = NoLast
    /\ tracked = [w \in Words |-> 0]
    /\ fuzz_env = DefaultEnv
    /\ IdleCorr
    /\ IdleEngine
    /\ IdleApi

\* extract_text up to the auto-learn, with the text of the document
LearnBegin(h, text) ==
    /\ LoopFree
    /\ req[h].phase = "idle"
    /\ req' = [req EXCEPT ![h] = [IdleReq EXCEPT !.phase = "correct", !.text = text]]
    /\ last' = [NoLast EXCEPT !.op = "correct"]
    /\ UNCHANGED <<apiVars, engineVars, scoreVars, pageVars, corrVars, learned_words,
                   learned_words_cache, cache_loaded, kamus_dokumen, tracked>>

\* the auto-learn of extract_text: get_unknown_words, then, for a list that
\* is not empty, track_unknown_words with its refresh, and the start of
\* load_learned_words when a word was approved
LearnTrack(h) ==
    /\ req[h].phase = "correct"
    /\ LET unknown_words == UnknownWordList(req[h].text, kamus_dokumen)
           r == TrackList(learned_words, unknown_words, 0)
           words == {unknown_words[i] : i \in 1 .. Len(unknown_words)}
           refreshed == IF r.newly_approved > 0 THEN ApprovedWords(r.store)
                        ELSE learned_words_cache
           learned == IF r.newly_approved > 0 THEN refreshed ELSE {}
       IN  /\ \A w \in words \cap DOMAIN learned_words :
                  learned_words[w].frequency < MaxFreq
           /\ learned_words' = r.store
           /\ learned_words_cache' = refreshed
           /\ cache_loaded' = (cache_loaded \/ r.newly_approved > 0)
           /\ req' = [req EXCEPT ![h] =
                         IF learned # {}
                         THEN [req[h] EXCEPT !.phase = "load", !.todo = learned]
                         ELSE [IdleReq EXCEPT !.text = req[h].text]]
           /\ last' = [NoLast EXCEPT !.op = IF unknown_words # <<>> THEN "track"
                                            ELSE "extract",
                                     !.words = words,
                                     !.newly_approved = r.newly_approved]
    /\ UNCHANGED <<apiVars, engineVars, scoreVars, pageVars, corrVars, kamus_dokumen,
                   tracked>>

NextLearn ==
    \/ \E h \in Handlers, text \in LearnTexts : LearnBegin(h, text)
    \/ \E h \in Handlers : LearnTrack(h)
    \/ \E h \in Handlers, w \in Words : LoadStep(h, w)

SpecLearn == InitLearn /\ [][NextLearn]_vars

\* the words of a text: the lowercase of its maximal runs of letters that
\* have 3 letters or more
LetterRuns(text) ==
    {StrLower(SubSeq(text, i, j)) :
        <<i, j>> \in {p \in (1 .. Len(text)) \X (1 .. Len(text)) :
                        /\ p[2] - p[1] + 1 >= 3
                        /\ \A k \in p[1] .. p[2] : IsAlpha(text[k])
                        /\ p[1] = 1 \/ ~IsAlpha(text[p[1] - 1])
                        /\ p[2] = Len(text) \/ ~IsAlpha(text[p[2] + 1])}}

\* the handler h has just run the auto-learn of its document
Learned(h) == req[h].phase = "correct" /\ req'[h].phase # "correct"

\* C27: the auto-learn of a document adds exactly 1 to the stored frequency
\* of each distinct word of its text that the live dictionary lacks (a word
\* not yet stored counting as frequency 0), whatever the number of its
\* occurrences, and leaves the other frequencies alone; and the value
\* track_unknown_words returns is the number of words whose row went from
\* unapproved to approved in the call
C27_EachUnknownWordOnce ==
    [][\A h \in Handlers :
          Learned(h) =>
              /\ \A w \in LetterRuns(req[h].text) \cup DOMAIN learned_words
                                                  \cup DOMAIN learned_words' :
                    FrequencyIn(learned_words', w) =
                        FrequencyIn(learned_words, w)
                        + (IF w \in LetterRuns(req[h].text) \ kamus_dokumen THEN 1 ELSE 0)
              /\ last'.newly_approved =
                     Cardinality({w \in DOMAIN learned_words' :
                                     /\ learned_words'[w].is_approved
                                     /\ ~ApprovedIn(learned_words, w)})]_vars

\* the auto-learn has run on a text that holds wedus twice and gedumg once:
\* wedus went from frequency 4 to 5 and was approved, the one word the call
\* counted, and gedumg is stored with frequency 1
C27_Witness ==
    \E h \in Handlers :
        /\ req[h].phase = "load"
        /\ req[h].text = w_wedus \o <<" ">> \o w_wedus \o <<" ">> \o w_gedumg
        /\ last.op = "track"
        /\ last.newly_approved = 1
        /\ learned_words = DictPut(DictPut(<<>>, w_wedus,
                                       [frequency |-> 5, is_approved |-> TRUE]),
                                   w_gedumg, [frequency |-> 1, is_approved |-> FALSE])

(***************************************************************************)
(* The API keys: DatabaseService.bikin_api_key, validasi_api_key,          *)
(* cek_admin_key, list_api_keys and cabut_api_key on the table api_keys.   *)
(***************************************************************************)
\* the keys bikin_api_key may draw (secrets.token_hex(16)), each at most once
Issued == {"sk-ocr-a", "sk-ocr-b"}

\* the keys a caller may present: the issued ones and one never issued
KeyPool == Issued \cup {"sk-ocr-x"}

\* uses counted for one key in the model
MaxUses == 1

\* _hash_key: the SHA-256 digest of the key, one digest per key
HashKey(key) == <<"sha256", key>>

\* A lookup by the digest alone.
RowOfHash(row, key_hash) == row.key_hash = key_hash

\* validasi_api_key: "WHERE key_hash = ? AND is_active = 1"
ActiveRowOfHash(row, key_hash) == row.key_hash = key_hash /\ row.is_active

\* the ids of the rows the SELECT of validasi_api_key returns
ValidRows(key) == {i \in 1 .. Len(api_keys) : ActiveRowOfHash(api_keys[i], HashKey(key))}

InitKeys ==
    /\ IdlePages
    /\ IdleVocab
    /\ fuzz_env = DefaultEnv
    /\ IdleCorr
    /\ IdleEngine
    /\ IdleExtract
    /\ IdleTrack
    /\ IdleRate
    /\ api_keys = <<>>
    /\ key_reply = NoKeyReply

\* bikin_api_key: INSERT of a new row, active, with a fresh key
BikinApiKey(key, is_admin) ==
    /\ key \in Issued
    /\ \A i \in 1 .. Len(api_keys) : api_keys[i].key_hash # HashKey(key)
    /\ api_keys' = Append(api_keys, [key_hash |-> HashKey(key), is_admin |-> is_admin,
                                     is_active |-> TRUE, requests_count |-> 0,
                                     revoked |-> FALSE])
    /\ key_reply' = [op |-> "bikin", key |-> key, key_id |-> Len(api_keys) + 1,
                     valid |-> TRUE]
    /\ UNCHANGED <<pageVars, vocabVars, corrVars, scoreVars, engineVars, extractVars,
                   trackVars, rateVars>>

\* the table after validasi_api_key: the use is counted on the row found
CountUse(key) ==
    [i \in 1 .. Len(api_keys) |->
        IF i \in ValidRows(key)
        THEN [api_keys[i] EXCEPT !.requests_count = api_keys[i].requests_count + 1]
        ELSE api_keys[i]]

\* validasi_api_key: the row of the key if it is active, and its use counted
ValidasiApiKey(key) ==
    /\ \A i \in ValidRows(key) : api_keys[i].requests_count < MaxUses
    /\ api_keys' = CountUse(key)
    /\ key_reply' = [op |-> "validasi", key |-> key,
                     key_id |-> IF ValidRows(key) = {} THEN 0
                                ELSE CHOOSE i \in ValidRows(key) : TRUE,
                     valid |-> ValidRows(key) # {}]
    /\ UNCHANGED <<pageVars, vocabVars, corrVars, scoreVars, engineVars, extractVars,
                   trackVars, rateVars>>

\* cek_admin_key: validasi_api_key, and the flag is_admin of the row
CekAdminKey(key) ==
    /\ \A i \in ValidRows(key) : api_keys[i].requests_count < MaxUses
    /\ api_keys' = CountUse(key)
    /\ key_reply' = [op |-> "cek_admin", key |-> key,
                     key_id |-> IF ValidRows(key) = {} THEN 0
                                ELSE CHOOSE i \in ValidRows(key) : TRUE,
                     valid |-> \E i \in ValidRows(key) : api_keys[i].is_admin]
    /\ UNCHANGED <<pageVars, vocabVars, corrVars, scoreVars, engineVars, extractVars,
                   trackVars, rateVars>>

\* list_api_keys: a SELECT of every row
ListApiKeys ==
    /\ key_reply' = [op |-> "list", key |-> "none", key_id |-> Len(api_keys),
                     valid |-> TRUE]
    /\ UNCHANGED <<pageVars, vocabVars, corrVars, scoreVars, engineVars, extractVars,
                   trackVars, rateVars, api_keys>>

\* cabut_api_key: "UPDATE api_keys SET is_active = 0, revoked_at = ? WHERE
\* id = ?", true when a row has the id; revoked: revoked_at is set
CabutApiKey(key_id) ==
    /\ key_id \in 1 .. (Len(api_keys) + 1)
    /\ api_keys' = [i \in 1 .. Len(api_keys) |->
                       IF i = key_id
                       THEN [api_keys[i] EXCEPT !.is_active = FALSE,
                                                !.revoked = TRUE]
                       ELSE api_keys[i]]
    /\ key_reply' = [op |-> "cabut", key |-> "none", key_id |-> key_id,
                     valid |-> key_id \in 1 .. Len(api_keys)]
    /\ UNCHANGED <<pageVars, vocabVars, corrVars, scoreVars, engineVars, extractVars,
                   trackVars, rateVars>>

NextKeys ==
    \/ \E key \in Issued, is_admin \in BOOLEAN : BikinApiKey(key, is_admin)
    \/ \E key \in KeyPool : ValidasiApiKey(key)
    \/ \E key \in KeyPool : CekAdminKey(key)
    \/ ListApiKeys
    \/ \E key_id \in 1 .. (Cardinality(Issued) + 1) : CabutApiKey(key_id)

SpecKeys == InitKeys /\ [][NextKeys]_vars

\* cabut_api_key has succeeded for the row of the key
Revoked(key) ==
    \E i \in 1 .. Len(api_keys) :
        api_keys[i].key_hash = HashKey(key) /\ api_keys[i].revoked

\* C29: a row cabut_api_key has revoked keeps is_active = 0 through every
\* later create, validate, list and revoke operation, and every
\* validasi_api_key and cek_admin_key call made with its key from then on
\* returns invalid and counts no use
C29_RevocationIsPermanent ==
    [][/\ \A i \in 1 .. Len(api_keys) :
             api_keys[i].revoked =>
                 /\ i <= Len(api_keys')
                 /\ ~api_keys'[i].is_active
                 /\ api_keys'[i].revoked
                 /\ api_keys'[i].key_hash = api_keys[i].key_hash
                 /\ api_keys'[i].requests_count = api_keys[i].requests_count
       /\ \A key \in KeyPool :
             (/\ Revoked(key)
              /\ key_reply'.op \in {"validasi", "cek_admin"}
              /\ key_reply'.key = key)
             => ~key_reply'.valid /\ key_reply'.key_id = 0]_vars

\* an admin key that was used and then revoked has just been refused by
\* cek_admin_key, after another key was created
C29_Witness ==
    /\ Len(api_keys) >= 2
    /\ api_keys[1].key_hash = HashKey("sk-ocr-a")
    /\ api_keys[1].is_admin
    /\ api_keys[1].requests_count > 0
    /\ api_keys[1].revoked
    /\ ~api_keys[1].is_active
    /\ api_keys[2].is_active
    /\ key_reply = [op |-> "cek_admin", key |-> "sk-ocr-a", key_id |-> 0, valid |-> FALSE]

(***************************************************************************)
(* RateLimitMiddleware.dispatch, one instance in one event loop: between   *)
(* the cleaning of a client's list and the append there is no await, so a  *)
(* request is checked and recorded in one step.                            *)
(***************************************************************************)
\* requests_per_minute: settings.RATE_LIMIT_PER_MINUTE, 30 unless the
\* environment sets it
RATE_LIMIT_PER_MINUTE == 2

\* the clock moves in steps of TickSeconds, MaxTicks times
TickSeconds == 20

MaxTicks == 4

\* path_dikecualikan
path_dikecualikan == {"/", "/health", "/docs", "/redoc", "/openapi.json"}

\* the paths requested
Paths == {"/health", "/api/ocr/extract"}

\* "len(self.catatan_request[id_client]) > self.batas_per_menit"
MoreThanLimit(catatan) == Len(catatan) > RATE_LIMIT_PER_MINUTE

\* "len(self.catatan_request[id_client]) >= self.batas_per_menit"
AtLimit(catatan) == Len(catatan) >= RATE_LIMIT_PER_MINUTE

\* "[waktu for waktu in self.catatan_request[id_client] if waktu > semenit_lalu]"
KeepRecent(catatan, semenit_lalu) == SelectSeq(catatan, LAMBDA waktu : waktu > semenit_lalu)

InitRate ==
    /\ IdlePages
    /\ IdleVocab
    /\ fuzz_env = DefaultEnv
    /\ IdleCorr
    /\ IdleEngine
    /\ IdleExtract
    /\ IdleTrack
    /\ IdleKeys
    /\ sekarang = 0
    /\ catatan_request = [c \in Clients |-> <<>>]
    /\ passed_on = [c \in Clients |-> <<>>]
    /\ rate_reply = NoRateReply

\* time.time() moves on
Tick ==
    /\ sekarang < MaxTicks * TickSeconds
    /\ sekarang' = sekarang + TickSeconds
    /\ UNCHANGED <<pageVars, vocabVars, corrVars, scoreVars, engineVars, extractVars,
                   trackVars, keyVars, catatan_request, passed_on, rate_reply>>

\* dispatch of a request to an exempt path: call_next at once
DispatchExempt(id_client, path) ==
    /\ path \in path_dikecualikan
    /\ rate_reply' = [client |-> id_client, path |-> path, status |-> 200,
                      waktu |-> sekarang]
    /\ UNCHANGED <<pageVars, vocabVars, corrVars, scoreVars, engineVars, extractVars,
                   trackVars, keyVars, sekarang, catatan_request, passed_on>>

\* dispatch of any other request: the list of the client is cleaned, then
\* the request is refused with 429, or recorded and handed to call_next
Dispatch(id_client, path) ==
    /\ path \notin path_dikecualikan
    /\ LET recent == KeepRecent(catatan_request[id_client], sekarang - 60)
       IN  IF AtLimit(recent)
           THEN /\ catatan_request' = [catatan_request EXCEPT ![id_client] = recent]
                /\ rate_reply' = [client |-> id_client, path |-> path, status |-> 429,
                                  waktu |-> sekarang]
                /\ UNCHANGED passed_on
           ELSE /\ catatan_request' =
                       [catatan_request EXCEPT ![id_client] = Append(recent, sekarang)]
                /\ passed_on' = [passed_on EXCEPT ![id_client] = Append(@, sekarang)]
                /\ rate_reply' = [client |-> id_client, path |-> path, status |-> 200,
                                  waktu |-> sekarang]
    /\ UNCHANGED <<pageVars, vocabVars, corrVars, scoreVars, engineVars, extractVars,
                   trackVars, keyVars, sekarang>>

NextRate ==
    \/ Tick
    \/ \E id_client \in Clients, path \in Paths : DispatchExempt(id_client, path)
    \/ \E id_client \in Clients, path \in Paths : Dispatch(id_client, path)

SpecRate == InitRate /\ [][NextRate]_vars

\* the requests of a client handed to the application in the 60 seconds
\* that begin at from (from included, from + 60 not)
PassedIn(id_client, from) ==
    {i \in 1 .. Len(passed_on[id_client]) :
        from <= passed_on[id_client][i] /\ passed_on[id_client][i] < from + 60}

\* the requests of a client handed to the application in the last 60
\* seconds before and at the time at
PassedBefore(id_client, at) ==
    {i \in 1 .. Len(passed_on[id_client]) :
        at - 60 < passed_on[id_client][i] /\ passed_on[id_client][i] <= at}

\* the list of a client holds the last of its requests handed on, and
\* nothing else
OnlyAcceptedRecorded ==
    \A c \in Clients :
        /\ Len(catatan_request[c]) <= Len(passed_on[c])
        /\ catatan_request[c] =
               SubSeq(passed_on[c], Len(passed_on[c]) - Len(catatan_request[c]) + 1,
                      Len(passed_on[c]))

RateLimited ==
    /\ \A c \in Clients : \A from \in 0 .. (MaxTicks * TickSeconds) :
           Cardinality(PassedIn(c, from)) <= RATE_LIMIT_PER_MINUTE
    /\ OnlyAcceptedRecorded
    /\ rate_reply.status = 429 =>
           /\ rate_reply.path \notin path_dikecualikan
           /\ Cardinality(PassedBefore(rate_reply.client, rate_reply.waktu))
                  >= RATE_LIMIT_PER_MINUTE
    /\ (rate_reply.status = 200 /\ rate_reply.path \notin path_dikecualikan) =>
           /\ Len(passed_on[rate_reply.client]) > 0
           /\ passed_on[rate_reply.client][Len(passed_on[rate_reply.client])]
                  = rate_reply.waktu
    /\ rate_reply.path \in path_dikecualikan => rate_reply.status = 200

\* a request that is refused, or goes to an exempt path, is not recorded
RefusedOrExemptStep ==
    (rate_reply'.status = 429 \/ rate_reply'.path \in path_dikecualikan) =>
        /\ passed_on' = passed_on
        /\ \A c \in Clients :
               catatan_request'[c] \in {catatan_request[c],
                                        KeepRecent(catatan_request[c], sekarang - 60)}

\* C30: per client and 60-second window at most requests_per_minute
\* requests to non-exempt paths are handed to the application; a request is
\* answered with 429 exactly when the client has that many accepted
\* requests in the last 60 seconds, and it is not recorded, so the list
\* holds accepted requests only; requests to the exempt paths are always
\* handed on and never recorded
C30_RateLimitPerClientWindow == []RateLimited /\ [][RefusedOrExemptStep]_vars

\* a client had two requests handed on at 0 and at 20 and a third at 60,
\* when the first was 60 seconds old, and its next request, at 60 too, was
\* refused and not recorded; the other client has had two requests handed on
C30_Witness ==
    /\ passed_on["sk-ocr-1"] = <<0, 20, 60>>
    /\ catatan_request["sk-ocr-1"] = <<20, 60>>
    /\ rate_reply = [client |-> "sk-ocr-1", path |-> "/api/ocr/extract",
                     status |-> 429, waktu |-> 60]
    /\ Len(passed_on["10.0.0.7"]) = 2

====
